---- MODULE Spec2Model ----
(***************************************************************************)
(* Fake Discord service (glideapps/fake-discord): the tenant-scoped state  *)
(* store and the request handlers in front of it.                          *)
(*                                                                         *)
(* The store is one SQLite database; every statement (and every db.batch)  *)
(* is atomic.  A handler is an async function: it can be suspended at each *)
(* `await db...`, so a handler is modelled as one action per database      *)
(* statement, each action carrying the local code that follows the         *)
(* statement up to the next await.  Requests in flight live in `reqs`.     *)
(***************************************************************************)
EXTENDS Integers, Sequences, FiniteSets, TLC

VARIABLES
    tenants,                \* table tenants: rows [id, bot_token, client_id, client_secret, next_id]
    guilds,                 \* table guilds: rows [tenant_id, id]
    channels,               \* table channels: rows [tenant_id, guild_id, id]
    auth_codes,             \* table auth_codes: rows [code, tenant_id, guild_id, redirect_uri]
    access_tokens,          \* table access_tokens: rows [token, tenant_id]
    messages,               \* table messages, in rowid order: rows [tenant_id, id, channel_id, payload]
    message_edits,          \* table message_edits, in id order: rows [tenant_id, message_id, payload]
    reactions,              \* table reactions, in id order: rows [tenant_id, channel_id, message_id, emoji]
    interaction_responses,  \* table interaction_responses: rows [tenant_id, interaction_token, response_id, payload]
    followups,              \* table followups, in rowid order: rows [tenant_id, id, interaction_token, payload]
    registered_commands,    \* table registered_commands, in rowid order: rows [tenant_id, id, guild_id, payload]
    audit_logs,             \* table audit_logs, in id order: rows [id, tenant_id, method, url, response_status]
    audit_seq,              \* sqlite_sequence of audit_logs (AUTOINCREMENT never reuses an id)
    uuid,                   \* number of crypto.randomUUID() values drawn so far (each draw is fresh)
    reqs,                   \* the requests received so far, in arrival order, each with its handler's position
    issued,                 \* history: [tenant_id, id] for the ids generateId returned since the tenant's creation or last reset
    handed                  \* history: [tenant_id, id] for every id generateId ever returned

vars == <<tenants, guilds, channels, auth_codes, access_tokens, messages, message_edits,
          reactions, interaction_responses, followups, registered_commands, audit_logs,
          audit_seq, uuid, reqs, issued, handed>>

\* everything but the requests and the audit log
store == <<tenants, guilds, channels, auth_codes, access_tokens, messages, message_edits,
           reactions, interaction_responses, followups, registered_commands>>

mutableTables == <<auth_codes, access_tokens, messages, message_edits, reactions,
                   interaction_responses, followups, registered_commands>>

-----------------------------------------------------------------------------
(* Bounds of the model. *)

\* requests per behaviour of the tenant-lifecycle specification
MaxLifecycleRequests == 2
\* requests per behaviour of the OAuth specification
MaxOAuthRequests == 2
\* requests per behaviour of the ID-generation specification
MaxIdRequests == 2
\* requests per behaviour of the reset/delete specification
MaxResetRequests == 2
\* requests per behaviour of the edit specification
MaxEditRequests == 2
\* requests per behaviour of the interaction-response specification
MaxInteractionRequests == 2
\* requests per behaviour of the command-registration specification
MaxCommandRequests == 2
MaxAuditRequests == 2
MaxSweepRequests == 2
MaxTokenRequests == 2
MaxIsolationRequests == 1
MaxTopologyRequests == 1
MaxReactionRequests == 2
MaxCodeRequests == 2
MaxDeliveryRequests == 2
MaxOrderingRequests == 2
MaxFollowups == 2

-----------------------------------------------------------------------------
(* Values requests are built from. *)

BotTokens == {"bot1", "bot2"}
ClientIds == {"cid1", "cid2"}
RedirectUris == {"r1", "r2"}
Payloads == {"p1", "p2"}

\* guilds objects of a create-tenant body: guild id -> set of channel ids
Topologies ==
    { [g1 |-> {"c1"}],
      [g1 |-> {"c1"}, g2 |-> {"c2"}] }

\* the secret a test tenant is created with
SecretOf(clientId) == IF clientId = "cid1" THEN "s1" ELSE "s2"

SeqToSet(s) == {s[i] : i \in DOMAIN s}

\* DELETE FROM <table> WHERE tenant_id = ?  on a table kept in rowid order
RECURSIVE DeleteWhereTenant(_, _)
DeleteWhereTenant(rows, tid) ==
    IF rows = <<>> THEN <<>>
    ELSE IF Head(rows).tenant_id = tid
         THEN DeleteWhereTenant(Tail(rows), tid)
         ELSE <<Head(rows)>> \o DeleteWhereTenant(Tail(rows), tid)

\* the same statement on a table kept as a set of rows
DeleteRowsOfTenant(rows, tid) == {r \in rows : r.tenant_id # tid}

-----------------------------------------------------------------------------
(* Tenant resolution (helpers.ts).  first() yields a row or null: the set   *)
(* of matching rows has at most one element, by the UNIQUE constraints.     *)

resolveTenantByBotToken(token) == {t \in tenants : t.bot_token = token}

resolveTenantByClientId(clientId) == {t \in tenants : t.client_id = clientId}

resolveTenantById(tenantId) == {t \in tenants : t.id = tenantId}

\* a resolution that takes any tenant once the token is stored
resolveTenantByAccessToken_AnyTenant(token) ==
    {t \in tenants : \E a \in access_tokens : a.token = token}

resolveTenantByAccessToken(token) ==
    {t \in tenants : \E a \in access_tokens : a.token = token /\ a.tenant_id = t.id}

RowOf(S) == CHOOSE x \in S : TRUE

-----------------------------------------------------------------------------
(* Requests. *)

\* a request as the middleware first sees it; ctx is c.get("tenantId"), 0 while unset;
\* status is 0 until the handler has produced its response
NewRequest(kind, p, pc) ==
    [kind |-> kind, p |-> p, pc |-> pc, l |-> [tenant |-> 0], ctx |-> 0,
     status |-> 0, body |-> ""]

Receive(r) == reqs' = Append(reqs, r)

\* middleware, on entry: `if (path.endsWith("/audit-logs")) return next()`; the two
\* routes whose path ends so are the per-tenant and the global log browser
SkipsAudit_Never(kind) == FALSE

SkipsAudit(kind) == kind \in {"getAuditLogs", "browseAuditLogs"}

\* the handler returns c.json(body, status): control goes back to the middleware, which
\* has nothing left to do for a request it skipped
Respond(r, status, body) ==
    [r EXCEPT !.pc = IF SkipsAudit(r.kind) THEN "done" ELSE "audit",
              !.status = status, !.body = body]

Set(i, r) == reqs' = [reqs EXCEPT ![i] = r]

At(i, kind, pc) == reqs[i].kind = kind /\ reqs[i].pc = pc

Method(kind) ==
    CASE kind \in {"authorize", "getChannel", "getUser", "getMessages", "getCommands",
                   "getAuditLogs", "browseAuditLogs"} -> "GET"
      [] kind = "deleteTenant" -> "DELETE"
      [] kind \in {"editMessage", "interactionResponse"} -> "PATCH"
      [] kind \in {"bulkOverwrite", "addReaction"} -> "PUT"
      [] OTHER -> "POST"

\* the audit row the middleware writes once next() has returned
AuditRow(r) ==
    [id |-> audit_seq + 1, tenant_id |-> r.ctx, method |-> Method(r.kind),
     url |-> r.kind, response_status |-> r.status]

\* middleware, after `await next()`: INSERT INTO audit_logs; the response then leaves
AuditLog(i) ==
    /\ reqs[i].pc = "audit"
    /\ audit_logs' = Append(audit_logs, AuditRow(reqs[i]))
    /\ audit_seq' = audit_seq + 1
    /\ Set(i, [reqs[i] EXCEPT !.pc = "done"])
    /\ UNCHANGED <<store, uuid, issued, handed>>

\* a variant in which an exception of the insert reaches the framework's error handler
AuditLogFails_Propagates(i) ==
    /\ reqs[i].pc = "audit"
    /\ Set(i, [reqs[i] EXCEPT !.pc = "done", !.status = 500, !.body = "Internal Server Error"])
    /\ UNCHANGED <<store, audit_logs, audit_seq, uuid, issued, handed>>

\* middleware, after `await next()`: the INSERT (or anything else inside the try block)
\* throws; the catch block is empty, so no row is written and the response leaves as it is.
\* Reading the response body fails inside a try of its own and only nulls the body column,
\* which is not part of the rows here.
AuditLogFails(i) ==
    /\ reqs[i].pc = "audit"
    /\ Set(i, [reqs[i] EXCEPT !.pc = "done"])
    /\ UNCHANGED <<store, audit_logs, audit_seq, uuid, issued, handed>>

-----------------------------------------------------------------------------
(* GET /_test/:tenantId/audit-logs and GET /_test/browse/audit-logs (README 2.11, 3.4). *)
(* The handlers follow the specification's Getters: 404 for an unknown tenant,          *)
(* otherwise 200 with the rows and their total; the handler sets the tenant context.    *)

\* a :tenantId path parameter: the id of a tenant, or an id no tenant has
TenantIdParams == {t.id : t \in tenants} \cup {0}

BeginGetAuditLogs(max) ==
    /\ Len(reqs) < max
    /\ \E tid \in TenantIdParams :
         Receive(NewRequest("getAuditLogs", [tenantId |-> tid], "al_resolve"))
    /\ UNCHANGED <<store, audit_logs, audit_seq, uuid, issued, handed>>

GetAuditLogsResolve(i) ==
    /\ At(i, "getAuditLogs", "al_resolve")
    /\ Set(i, IF resolveTenantById(reqs[i].p.tenantId) = {}
              THEN Respond(reqs[i], 404, "Tenant not found")
              ELSE [reqs[i] EXCEPT !.pc = "al_select", !.ctx = reqs[i].p.tenantId,
                                   !.l.tenant = reqs[i].p.tenantId])
    /\ UNCHANGED <<store, audit_logs, audit_seq, uuid, issued, handed>>

\* total: the number of audit_logs rows of the tenant
TotalOf(rows, tid) == Cardinality({k \in DOMAIN rows : rows[k].tenant_id = tid})

GetAuditLogsSelect(i) ==
    /\ At(i, "getAuditLogs", "al_select")
    /\ Set(i, Respond([reqs[i] EXCEPT !.l = [tenant |-> reqs[i].l.tenant,
                                             total |-> TotalOf(audit_logs, reqs[i].l.tenant)]],
                      200, "logs"))
    /\ UNCHANGED <<store, audit_logs, audit_seq, uuid, issued, handed>>

\* the global browser: no tenant to resolve; total counts every row
BeginBrowseAuditLogs(max) ==
    /\ Len(reqs) < max
    /\ Receive(NewRequest("browseAuditLogs", [tenantId |-> 0], "bl_select"))
    /\ UNCHANGED <<store, audit_logs, audit_seq, uuid, issued, handed>>

BrowseAuditLogsSelect(i) ==
    /\ At(i, "browseAuditLogs", "bl_select")
    /\ Set(i, Respond([reqs[i] EXCEPT !.l = [tenant |-> 0, total |-> Len(audit_logs)]],
                      200, "logs"))
    /\ UNCHANGED <<store, audit_logs, audit_seq, uuid, issued, handed>>

-----------------------------------------------------------------------------
(* POST /_test/tenants (test-control.ts, 2.1 Create Tenant). *)

CountOf(rows, tid) == Cardinality({i \in DOMAIN rows : rows[i].tenant_id = tid})

\* a validation that does not look into the guilds
ValidTenantBody_AnyChannels(p) ==
    /\ p.botToken # "" /\ p.clientId # ""
    /\ DOMAIN p.guilds # {}

\* the body passes the field and guilds-structure validation
ValidTenantBody(p) ==
    /\ p.botToken # "" /\ p.clientId # ""
    /\ DOMAIN p.guilds # {}
    /\ \A g \in DOMAIN p.guilds : p.guilds[g] # {}

\* middleware entry, requireJsonBody and the validation of the body: no statement yet
BeginCreateTenant(max) ==
    /\ Len(reqs) < max
    /\ \E bot \in BotTokens, cid \in ClientIds, g \in Topologies \cup {[g1 |-> {}]} :
         LET p == [botToken |-> bot, clientId |-> cid, clientSecret |-> SecretOf(cid),
                   guilds |-> g]
         IN  Receive(IF ValidTenantBody(p)
                     THEN NewRequest("createTenant", p, "ct_bot")
                     ELSE Respond(NewRequest("createTenant", p, "begin"), 400,
                                  "Missing required field"))
    /\ UNCHANGED <<store, audit_logs, audit_seq, uuid, issued, handed>>

\* the handler without its botToken lookup
CreateTenantCheckBot_NoLookup(i) ==
    /\ At(i, "createTenant", "ct_bot")
    /\ Set(i, [reqs[i] EXCEPT !.pc = "ct_client"])
    /\ UNCHANGED <<store, audit_logs, audit_seq, uuid, issued, handed>>

\* SELECT id FROM tenants WHERE bot_token = ?
CreateTenantCheckBot(i) ==
    /\ At(i, "createTenant", "ct_bot")
    /\ Set(i, IF resolveTenantByBotToken(reqs[i].p.botToken) # {}
              THEN Respond(reqs[i], 409, "botToken already in use")
              ELSE [reqs[i] EXCEPT !.pc = "ct_client"])
    /\ UNCHANGED <<store, audit_logs, audit_seq, uuid, issued, handed>>

\* SELECT id FROM tenants WHERE client_id = ?
CreateTenantCheckClient(i) ==
    /\ At(i, "createTenant", "ct_client")
    /\ Set(i, IF resolveTenantByClientId(reqs[i].p.clientId) # {}
              THEN Respond(reqs[i], 409, "clientId already in use")
              ELSE [reqs[i] EXCEPT !.pc = "ct_batch"])
    /\ UNCHANGED <<store, audit_logs, audit_seq, uuid, issued, handed>>

\* the constraints the batch's INSERTs meet: tenants.bot_token UNIQUE, tenants.client_id
\* UNIQUE, PRIMARY KEY (tenant_id, id) of channels (guild ids are the keys of one object)
CreateBatchConstraintsOk(p) ==
    /\ \A t \in tenants : t.bot_token # p.botToken /\ t.client_id # p.clientId
    /\ \A g1, g2 \in DOMAIN p.guilds : g1 # g2 => p.guilds[g1] \cap p.guilds[g2] = {}

\* crypto.randomUUID(), then db.batch([INSERT tenants, INSERT guilds.., INSERT channels..]).
\* A constraint failure rolls the batch back and rejects; the handler does not catch,
\* so the framework answers 500.
CreateTenantBatch(i) ==
    /\ At(i, "createTenant", "ct_batch")
    /\ uuid' = uuid + 1
    /\ LET p == reqs[i].p
           tenantId == uuid + 1
       IN  IF CreateBatchConstraintsOk(p)
           THEN /\ tenants' = tenants \cup
                        {[id |-> tenantId, bot_token |-> p.botToken, client_id |-> p.clientId,
                          client_secret |-> p.clientSecret, next_id |-> 1]}
                /\ guilds' = guilds \cup {[tenant_id |-> tenantId, id |-> g] : g \in DOMAIN p.guilds}
                /\ channels' = channels \cup
                        UNION {{[tenant_id |-> tenantId, guild_id |-> g, id |-> c] : c \in p.guilds[g]}
                               : g \in DOMAIN p.guilds}
                /\ Set(i, Respond([reqs[i] EXCEPT !.l.tenant = tenantId], 201, "created"))
           ELSE /\ UNCHANGED <<tenants, guilds, channels>>
                /\ Set(i, Respond(reqs[i], 500, "Internal Server Error"))
    /\ UNCHANGED <<mutableTables, audit_logs, audit_seq, issued, handed>>

-----------------------------------------------------------------------------
(* DELETE /_test/tenants/:tenantId (test-control.ts, 2.2 Delete Tenant). *)

BeginDeleteTenant(max) ==
    /\ Len(reqs) < max
    /\ \E tid \in TenantIdParams :
         Receive(NewRequest("deleteTenant", [tenantId |-> tid], "dt_resolve"))
    /\ UNCHANGED <<store, audit_logs, audit_seq, uuid, issued, handed>>

DeleteTenantResolve(i) ==
    /\ At(i, "deleteTenant", "dt_resolve")
    /\ Set(i, IF resolveTenantById(reqs[i].p.tenantId) = {}
              THEN Respond(reqs[i], 404, "Tenant not found")
              ELSE [reqs[i] EXCEPT !.pc = "dt_batch", !.l.tenant = reqs[i].p.tenantId])
    /\ UNCHANGED <<store, audit_logs, audit_seq, uuid, issued, handed>>

\* rows of the eight mutable tables that carry tenant_id = tid
MutableRowCount(tid) ==
    Cardinality({r \in auth_codes : r.tenant_id = tid})
    + Cardinality({r \in access_tokens : r.tenant_id = tid})
    + Cardinality({r \in interaction_responses : r.tenant_id = tid})
    + CountOf(messages, tid) + CountOf(message_edits, tid) + CountOf(reactions, tid)
    + CountOf(followups, tid) + CountOf(registered_commands, tid)

\* the statements without the DELETE FROM access_tokens
ClearMutableTables_KeepsAccessTokens(tid) ==
    /\ followups' = DeleteWhereTenant(followups, tid)
    /\ interaction_responses' = DeleteRowsOfTenant(interaction_responses, tid)
    /\ registered_commands' = DeleteWhereTenant(registered_commands, tid)
    /\ reactions' = DeleteWhereTenant(reactions, tid)
    /\ message_edits' = DeleteWhereTenant(message_edits, tid)
    /\ messages' = DeleteWhereTenant(messages, tid)
    /\ access_tokens' = access_tokens
    /\ auth_codes' = DeleteRowsOfTenant(auth_codes, tid)

\* the eight DELETE ... WHERE tenant_id = ? statements shared by delete and reset
ClearMutableTables(tid) ==
    /\ followups' = DeleteWhereTenant(followups, tid)
    /\ interaction_responses' = DeleteRowsOfTenant(interaction_responses, tid)
    /\ registered_commands' = DeleteWhereTenant(registered_commands, tid)
    /\ reactions' = DeleteWhereTenant(reactions, tid)
    /\ message_edits' = DeleteWhereTenant(message_edits, tid)
    /\ messages' = DeleteWhereTenant(messages, tid)
    /\ access_tokens' = DeleteRowsOfTenant(access_tokens, tid)
    /\ auth_codes' = DeleteRowsOfTenant(auth_codes, tid)

\* the batch without the DELETE FROM channels
DeleteTenantBatch_KeepsChannels(i) ==
    /\ At(i, "deleteTenant", "dt_batch")
    /\ LET tid == reqs[i].p.tenantId
       IN  /\ ClearMutableTables(tid)
           /\ channels' = channels
           /\ guilds' = DeleteRowsOfTenant(guilds, tid)
           /\ tenants' = {t \in tenants : t.id # tid}
           /\ Set(i, Respond([reqs[i] EXCEPT !.l = [tenant |-> tid,
                                                    changes |-> MutableRowCount(tid)]],
                             200, "deleted"))
    /\ UNCHANGED <<audit_logs, audit_seq, uuid, issued, handed>>

\* db.batch([DELETE FROM followups .. auth_codes, channels, guilds, tenants]); l.changes is
\* the sum of meta.changes of the eight statements on the mutable tables
DeleteTenantBatch(i) ==
    /\ At(i, "deleteTenant", "dt_batch")
    /\ LET tid == reqs[i].p.tenantId
       IN  /\ ClearMutableTables(tid)
           /\ channels' = DeleteRowsOfTenant(channels, tid)
           /\ guilds' = DeleteRowsOfTenant(guilds, tid)
           /\ tenants' = {t \in tenants : t.id # tid}
           /\ Set(i, Respond([reqs[i] EXCEPT !.l = [tenant |-> tid,
                                                    changes |-> MutableRowCount(tid)]],
                             200, "deleted"))
    /\ UNCHANGED <<audit_logs, audit_seq, uuid, issued, handed>>

-----------------------------------------------------------------------------
(* POST /_test/:tenantId/reset (test-control.ts, 2.8 Reset Tenant State). *)

BeginReset(max) ==
    /\ Len(reqs) < max
    /\ \E tid \in TenantIdParams :
         Receive(NewRequest("reset", [tenantId |-> tid], "rs_resolve"))
    /\ UNCHANGED <<store, audit_logs, audit_seq, uuid, issued, handed>>

ResetResolve(i) ==
    /\ At(i, "reset", "rs_resolve")
    /\ Set(i, IF resolveTenantById(reqs[i].p.tenantId) = {}
              THEN Respond(reqs[i], 404, "Tenant not found")
              ELSE [reqs[i] EXCEPT !.pc = "rs_batch", !.l.tenant = reqs[i].p.tenantId])
    /\ UNCHANGED <<store, audit_logs, audit_seq, uuid, issued, handed>>

\* a reset whose UPDATE advances the counter instead of setting it
ResetBatch_AdvancesCounter(i) ==
    /\ At(i, "reset", "rs_batch")
    /\ LET tid == reqs[i].p.tenantId
       IN  /\ ClearMutableTables(tid)
           /\ tenants' = {IF t.id = tid THEN [t EXCEPT !.next_id = t.next_id + 1] ELSE t
                          : t \in tenants}
           /\ issued' = {x \in issued : x.tenant_id # tid}
           /\ Set(i, Respond([reqs[i] EXCEPT !.l = [tenant |-> tid,
                                                    changes |-> MutableRowCount(tid)]],
                             200, "reset"))
    /\ UNCHANGED <<guilds, channels, audit_logs, audit_seq, uuid, handed>>

\* a reset that clears the tenant's guilds and channels as well
ResetBatch_ClearsTopology(i) ==
    /\ At(i, "reset", "rs_batch")
    /\ LET tid == reqs[i].p.tenantId
       IN  /\ ClearMutableTables(tid)
           /\ channels' = DeleteRowsOfTenant(channels, tid)
           /\ guilds' = DeleteRowsOfTenant(guilds, tid)
           /\ tenants' = {IF t.id = tid THEN [t EXCEPT !.next_id = 1] ELSE t : t \in tenants}
           /\ issued' = {x \in issued : x.tenant_id # tid}
           /\ Set(i, Respond([reqs[i] EXCEPT !.l = [tenant |-> tid,
                                                    changes |-> MutableRowCount(tid)]],
                             200, "reset"))
    /\ UNCHANGED <<audit_logs, audit_seq, uuid, handed>>

\* db.batch([DELETE FROM followups .. auth_codes, UPDATE tenants SET next_id = 1 WHERE id = ?])
ResetBatch(i) ==
    /\ At(i, "reset", "rs_batch")
    /\ LET tid == reqs[i].p.tenantId
       IN  /\ ClearMutableTables(tid)
           /\ tenants' = {IF t.id = tid THEN [t EXCEPT !.next_id = 1] ELSE t : t \in tenants}
           /\ issued' = {x \in issued : x.tenant_id # tid}
           /\ Set(i, Respond([reqs[i] EXCEPT !.l = [tenant |-> tid,
                                                    changes |-> MutableRowCount(tid)]],
                             200, "reset"))
    /\ UNCHANGED <<guilds, channels, audit_logs, audit_seq, uuid, handed>>

-----------------------------------------------------------------------------
(* POST /_test/:tenantId/auth-code (test-control.ts, 2.9 Create Authorization Code). *)

\* the codes the service has handed to a caller or stored so far, and one it never issued
CodeParams ==
    {a.code : a \in auth_codes}
    \cup {reqs[i].l.code : i \in {j \in DOMAIN reqs : "code" \in DOMAIN reqs[j].l}}
    \cup {reqs[i].p.code : i \in {j \in DOMAIN reqs : reqs[j].kind = "exchange"}}
    \cup {0}

BeginAuthCode(max) ==
    /\ Len(reqs) < max
    /\ \E tid \in TenantIdParams, g \in {"g1", "gX"}, uri \in {"", "r1"} :
         \* what is never read (after a 404, after an unknown guild) is not varied
         /\ (tid = 0 \/ g = "gX") => uri = ""
         /\ tid = 0 => g = "g1"
         /\ Receive(NewRequest("authCode",
                                [tenantId |-> tid, guildId |-> g, redirectUri |-> uri],
                                "ac_resolve"))
    /\ UNCHANGED <<store, audit_logs, audit_seq, uuid, issued, handed>>

\* resolveTenantById; requireJsonBody and the guildId check follow without a statement
AuthCodeResolve(i) ==
    /\ At(i, "authCode", "ac_resolve")
    /\ Set(i, IF resolveTenantById(reqs[i].p.tenantId) = {}
              THEN Respond(reqs[i], 404, "Tenant not found")
              ELSE IF reqs[i].p.guildId = ""
              THEN Respond(reqs[i], 400, "Missing required field: guildId")
              ELSE [reqs[i] EXCEPT !.pc = "ac_guild", !.l.tenant = reqs[i].p.tenantId])
    /\ UNCHANGED <<store, audit_logs, audit_seq, uuid, issued, handed>>

\* SELECT id FROM guilds WHERE tenant_id = ? AND id = ?
AuthCodeGuild(i) ==
    /\ At(i, "authCode", "ac_guild")
    /\ Set(i, IF \E g \in guilds : g.tenant_id = reqs[i].p.tenantId /\ g.id = reqs[i].p.guildId
              THEN [reqs[i] EXCEPT !.pc = "ac_insert"]
              ELSE Respond(reqs[i], 400, "Unknown guild"))
    /\ UNCHANGED <<store, audit_logs, audit_seq, uuid, issued, handed>>

\* code = `fake-code-${crypto.randomUUID()}`; INSERT INTO auth_codes
AuthCodeInsert(i) ==
    /\ At(i, "authCode", "ac_insert")
    /\ uuid' = uuid + 1
    /\ auth_codes' = auth_codes \cup
           {[code |-> uuid + 1, tenant_id |-> reqs[i].p.tenantId,
             guild_id |-> reqs[i].p.guildId, redirect_uri |-> reqs[i].p.redirectUri]}
    /\ Set(i, Respond([reqs[i] EXCEPT !.l = [tenant |-> reqs[i].p.tenantId, code |-> uuid + 1]],
                      200, "code"))
    /\ UNCHANGED <<tenants, guilds, channels, access_tokens, messages, message_edits, reactions,
                   interaction_responses, followups, registered_commands,
                   audit_logs, audit_seq, issued, handed>>

-----------------------------------------------------------------------------
(* GET /oauth2/authorize (discord-api.ts, 1.1 OAuth Authorize). *)

\* ORDER BY id ASC on the guild ids of the model
GuildRank(g) == IF g = "g1" THEN 1 ELSE 2

\* SELECT id FROM guilds WHERE tenant_id = ? ORDER BY id ASC LIMIT 1 ("" when there is none)
FirstGuild(tid) ==
    LET ids == {g.id : g \in {x \in guilds : x.tenant_id = tid}}
    IN  IF ids = {} THEN ""
        ELSE CHOOSE g \in ids : \A h \in ids : GuildRank(g) <= GuildRank(h)

\* new URL(redirectUri) accepts the string
ParsesAsUrl(uri) == uri # ""

BeginAuthorize(max) ==
    /\ Len(reqs) < max
    /\ \E cid \in {"", "cid1", "cidX"}, uri \in {"", "r1"} :
         LET r == NewRequest("authorize", [client_id |-> cid, redirect_uri |-> uri], "az_resolve")
         IN  \* the redirect_uri of a request answered 400 is never read
             /\ cid # "cid1" => uri = "r1"
             /\ Receive(IF cid = "" THEN Respond(r, 400, "Unknown client_id") ELSE r)
    /\ UNCHANGED <<store, audit_logs, audit_seq, uuid, issued, handed>>

AuthorizeResolve(i) ==
    /\ At(i, "authorize", "az_resolve")
    /\ LET tenant == resolveTenantByClientId(reqs[i].p.client_id)
       IN  Set(i, IF tenant = {}
                  THEN Respond(reqs[i], 400, "Unknown client_id")
                  ELSE [reqs[i] EXCEPT !.pc = "az_guild", !.ctx = RowOf(tenant).id,
                                       !.l.tenant = RowOf(tenant).id])
    /\ UNCHANGED <<store, audit_logs, audit_seq, uuid, issued, handed>>

AuthorizeFirstGuild(i) ==
    /\ At(i, "authorize", "az_guild")
    /\ Set(i, [reqs[i] EXCEPT !.pc = "az_insert",
                              !.l = [tenant |-> reqs[i].l.tenant,
                                     guildId |-> FirstGuild(reqs[i].l.tenant)]])
    /\ UNCHANGED <<store, audit_logs, audit_seq, uuid, issued, handed>>

\* INSERT INTO auth_codes, then new URL(redirectUri), which throws on a string that is
\* no URL: the framework then answers 500
AuthorizeInsert(i) ==
    /\ At(i, "authorize", "az_insert")
    /\ uuid' = uuid + 1
    /\ auth_codes' = auth_codes \cup
           {[code |-> uuid + 1, tenant_id |-> reqs[i].l.tenant,
             guild_id |-> reqs[i].l.guildId, redirect_uri |-> reqs[i].p.redirect_uri]}
    /\ LET r == [reqs[i] EXCEPT !.l = [tenant |-> reqs[i].l.tenant,
                                       guildId |-> reqs[i].l.guildId, code |-> uuid + 1]]
       IN  Set(i, IF ParsesAsUrl(reqs[i].p.redirect_uri)
                  THEN Respond(r, 302, "redirect")
                  ELSE Respond(r, 500, "Internal Server Error"))
    /\ UNCHANGED <<tenants, guilds, channels, access_tokens, messages, message_edits, reactions,
                   interaction_responses, followups, registered_commands,
                   audit_logs, audit_seq, issued, handed>>

-----------------------------------------------------------------------------
(* POST /api/v10/oauth2/token (discord-api.ts, 1.2 OAuth Token Exchange). *)

\* requireFormBody: a body that is not application/x-www-form-urlencoded is answered 400
BeginTokenExchange(max) ==
    /\ Len(reqs) < max
    /\ \/ \E cid \in ClientIds, sec \in {"s1", "s2"}, code \in CodeParams, uri \in RedirectUris :
            \* what is never read (after invalid_client, with a code never issued) is not varied
            /\ sec # SecretOf(cid) => code = 0
            /\ code = 0 => uri = "r1"
            /\ Receive(NewRequest("exchange",
                                   [form |-> TRUE, client_id |-> cid, client_secret |-> sec,
                                    code |-> code, redirect_uri |-> uri], "ex_resolve"))
       \/ Receive(Respond(NewRequest("exchange",
                                      [form |-> FALSE, client_id |-> "cid1",
                                       client_secret |-> "s1", code |-> 0,
                                       redirect_uri |-> "r1"], "begin"),
                           400, "Invalid request body"))
    /\ UNCHANGED <<store, audit_logs, audit_seq, uuid, issued, handed>>

\* resolveTenantByClientId, then the client_secret comparison
TokenExchangeResolve(i) ==
    /\ At(i, "exchange", "ex_resolve")
    /\ LET tenant == resolveTenantByClientId(reqs[i].p.client_id)
       IN  Set(i, IF tenant = {} THEN Respond(reqs[i], 401, "invalid_client")
                  ELSE IF RowOf(tenant).client_secret # reqs[i].p.client_secret
                  THEN Respond(reqs[i], 401, "invalid_client")
                  ELSE [reqs[i] EXCEPT !.pc = "ex_select", !.ctx = RowOf(tenant).id,
                                       !.l.tenant = RowOf(tenant).id])
    /\ UNCHANGED <<store, audit_logs, audit_seq, uuid, issued, handed>>

\* the statements with WHERE code = ? alone
AuthCodeRows_AnyTenant(code, tid) == {a \in auth_codes : a.code = code}

\* SELECT code, guild_id, redirect_uri FROM auth_codes WHERE code = ? AND tenant_id = ?
AuthCodeRows(code, tid) == {a \in auth_codes : a.code = code /\ a.tenant_id = tid}

TokenExchangeSelect(i) ==
    /\ At(i, "exchange", "ex_select")
    /\ LET rows == AuthCodeRows(reqs[i].p.code, reqs[i].l.tenant)
       IN  Set(i, IF rows = {} THEN Respond(reqs[i], 401, "invalid_grant")
                  ELSE [reqs[i] EXCEPT !.pc = "ex_delete",
                                       !.l = [tenant |-> reqs[i].l.tenant,
                                              authCode |-> RowOf(rows)]])
    /\ UNCHANGED <<store, audit_logs, audit_seq, uuid, issued, handed>>

\* the stored redirect_uri is compared only when it is a non-empty string
RedirectUriAccepted(stored, given) == ~(stored # "" /\ stored # given)

\* the DELETE that leaves the code in place
TokenExchangeDelete_KeepsCode(i) ==
    /\ At(i, "exchange", "ex_delete")
    /\ Set(i, IF RedirectUriAccepted(reqs[i].l.authCode.redirect_uri, reqs[i].p.redirect_uri)
              THEN [reqs[i] EXCEPT !.pc = "ex_insert"]
              ELSE Respond(reqs[i], 400, "redirect_uri mismatch"))
    /\ UNCHANGED <<store, audit_logs, audit_seq, uuid, issued, handed>>

\* the DELETE whose meta.changes is not looked at
TokenExchangeDelete_IgnoresChanges(i) ==
    /\ At(i, "exchange", "ex_delete")
    /\ auth_codes' = auth_codes \ AuthCodeRows(reqs[i].p.code, reqs[i].l.tenant)
    /\ Set(i, IF RedirectUriAccepted(reqs[i].l.authCode.redirect_uri, reqs[i].p.redirect_uri)
              THEN [reqs[i] EXCEPT !.pc = "ex_insert"]
              ELSE Respond(reqs[i], 400, "redirect_uri mismatch"))
    /\ UNCHANGED <<tenants, guilds, channels, access_tokens, messages, message_edits, reactions,
                   interaction_responses, followups, registered_commands,
                   audit_logs, audit_seq, uuid, issued, handed>>

\* DELETE FROM auth_codes WHERE code = ? AND tenant_id = ?; no row changed: 401;
\* then the redirect_uri of the row read before is validated
TokenExchangeDelete(i) ==
    /\ At(i, "exchange", "ex_delete")
    /\ LET rows == AuthCodeRows(reqs[i].p.code, reqs[i].l.tenant)
       IN  /\ auth_codes' = auth_codes \ rows
           /\ Set(i, IF rows = {} THEN Respond(reqs[i], 401, "invalid_grant")
                     ELSE IF RedirectUriAccepted(reqs[i].l.authCode.redirect_uri,
                                                 reqs[i].p.redirect_uri)
                     THEN [reqs[i] EXCEPT !.pc = "ex_insert"]
                     ELSE Respond(reqs[i], 400, "redirect_uri mismatch"))
    /\ UNCHANGED <<tenants, guilds, channels, access_tokens, messages, message_edits, reactions,
                   interaction_responses, followups, registered_commands,
                   audit_logs, audit_seq, uuid, issued, handed>>

\* accessToken = `fake-at-${tenant.id}-${crypto.randomUUID()}`; INSERT INTO access_tokens
TokenExchangeInsert(i) ==
    /\ At(i, "exchange", "ex_insert")
    /\ uuid' = uuid + 1
    /\ LET token == <<reqs[i].l.tenant, uuid + 1>>
       IN  /\ access_tokens' = access_tokens \cup {[token |-> token, tenant_id |-> reqs[i].l.tenant]}
           /\ Set(i, [reqs[i] EXCEPT !.pc = "ex_guild",
                                     !.l = [tenant |-> reqs[i].l.tenant,
                                            authCode |-> reqs[i].l.authCode,
                                            accessToken |-> token]])
    /\ UNCHANGED <<tenants, guilds, channels, auth_codes, messages, message_edits, reactions,
                   interaction_responses, followups, registered_commands,
                   audit_logs, audit_seq, issued, handed>>

\* SELECT id, name FROM guilds ...; the response carries a refresh token from a second
\* crypto.randomUUID()
TokenExchangeGuild(i) ==
    /\ At(i, "exchange", "ex_guild")
    /\ uuid' = uuid + 1
    /\ Set(i, Respond(reqs[i], 200, "access_token"))
    /\ UNCHANGED <<store, audit_logs, audit_seq, issued, handed>>

-----------------------------------------------------------------------------
(* GET /api/v10/users/@me (discord-api.ts, 1.3 User Identity). *)

\* a token no exchange has issued
UnissuedToken == <<1, 0>>

\* the bearer tokens a caller can present: those stored or handed out so far and one
\* that was never issued; <<>> stands for a missing or malformed Authorization header
BearerParams ==
    {a.token : a \in access_tokens}
    \cup {reqs[i].l.accessToken : i \in {j \in DOMAIN reqs : "accessToken" \in DOMAIN reqs[j].l}}
    \cup {reqs[i].p.bearer : i \in {j \in DOMAIN reqs : reqs[j].kind = "getUser"}}
    \cup {UnissuedToken, <<>>}

BeginGetUser(max) ==
    /\ Len(reqs) < max
    /\ \E tok \in BearerParams :
         LET r == NewRequest("getUser", [bearer |-> tok], "gu_resolve")
         IN  Receive(IF tok = <<>> THEN Respond(r, 401, "401: Unauthorized") ELSE r)
    /\ UNCHANGED <<store, audit_logs, audit_seq, uuid, issued, handed>>

\* resolveTenantByAccessToken, c.set("tenantId"); l.user is the tenant id in
\* id: `fake-user-${tenant.id}`
GetUserResolve(i) ==
    /\ At(i, "getUser", "gu_resolve")
    /\ LET tenant == resolveTenantByAccessToken(reqs[i].p.bearer)
       IN  Set(i, IF tenant = {} THEN Respond(reqs[i], 401, "401: Unauthorized")
                  ELSE Respond([reqs[i] EXCEPT !.ctx = RowOf(tenant).id,
                                               !.l = [tenant |-> RowOf(tenant).id,
                                                      user |-> RowOf(tenant).id]],
                               200, "user"))
    /\ UNCHANGED <<store, audit_logs, audit_seq, uuid, issued, handed>>

-----------------------------------------------------------------------------
(* generateId (helpers.ts): one statement,                                  *)
(*   UPDATE tenants SET next_id = next_id + 1 WHERE id = ? RETURNING next_id *)
(* and the id is `${prefix}-${nextId - 1}`, modelled as <<prefix, number>>.  *)

\* the id built from the returned counter without the "- 1"
IdFromReturned_NoDecrement(prefix, nextId) == <<prefix, nextId>>

IdFromReturned(prefix, nextId) == <<prefix, nextId - 1>>

\* the UPDATE that leaves the counter where it is
IncrementNextId_NoIncrement(tid) == tenants

\* the UPDATE without its WHERE id = ?
IncrementNextId_EveryTenant(tid) == {[t EXCEPT !.next_id = t.next_id + 1] : t \in tenants}

\* the UPDATE with SET next_id = next_id + 2
IncrementNextId_ByTwo(tid) ==
    {IF t.id = tid THEN [t EXCEPT !.next_id = t.next_id + 2] ELSE t : t \in tenants}

\* the table tenants after the UPDATE
IncrementNextId(tid) ==
    {IF t.id = tid THEN [t EXCEPT !.next_id = t.next_id + 1] ELSE t : t \in tenants}

\* the RETURNING rows: the updated row of the tenant, if it exists
ReturnedRows(tid) == {t \in IncrementNextId(tid) : t.id = tid}

\* `await generateId(tenant.id, prefix)` in request i, which then continues at pc `next`.
\* With no row returned, reading next_id of null throws and the framework answers 500.
GenerateId(i, prefix, next) ==
    LET tid == reqs[i].l.tenant
        rows == ReturnedRows(tid)
    IN  /\ tenants' = IncrementNextId(tid)
        /\ IF rows = {}
           THEN /\ Set(i, Respond(reqs[i], 500, "Internal Server Error"))
                /\ UNCHANGED <<issued, handed>>
           ELSE LET id == IdFromReturned(prefix, RowOf(rows).next_id)
                IN  /\ Set(i, [reqs[i] EXCEPT !.pc = next, !.l = [tenant |-> tid, id |-> id]])
                    /\ issued' = issued \cup {[tenant_id |-> tid, id |-> id]}
                    /\ handed' = handed \cup {[tenant_id |-> tid, id |-> id]}
        /\ UNCHANGED <<guilds, channels, mutableTables, audit_logs, audit_seq, uuid>>

-----------------------------------------------------------------------------
(* POST /api/v10/channels/:channelId/messages (discord-api.ts, 1.5 Send Message). *)

\* the Authorization header: "" when it is missing or is no "Bot <token>"
BeginSendMessage(max) ==
    /\ Len(reqs) < max
    /\ \E auth \in {"", "bot1", "bot2", "botX"}, ch \in {"c1", "cX"}, body \in Payloads \cup {""} :
         LET r == NewRequest("sendMessage", [auth |-> auth, channelId |-> ch, json |-> body],
                             "sm_resolve")
         IN  \* what is never read (after a 401, after a 404) is not varied
             /\ auth \in {"", "botX"} => ch = "c1"
             /\ (auth \in {"", "botX"} \/ ch = "cX") => body = "p1"
             /\ Receive(IF auth = "" THEN Respond(r, 401, "401: Unauthorized") ELSE r)
    /\ UNCHANGED <<store, audit_logs, audit_seq, uuid, issued, handed>>

SendMessageResolve(i) ==
    /\ At(i, "sendMessage", "sm_resolve")
    /\ LET tenant == resolveTenantByBotToken(reqs[i].p.auth)
       IN  Set(i, IF tenant = {} THEN Respond(reqs[i], 401, "401: Unauthorized")
                  ELSE [reqs[i] EXCEPT !.pc = "sm_channel", !.ctx = RowOf(tenant).id,
                                       !.l.tenant = RowOf(tenant).id])
    /\ UNCHANGED <<store, audit_logs, audit_seq, uuid, issued, handed>>

\* SELECT id FROM channels WHERE tenant_id = ? AND id = ?, then requireJsonBody
\* (json = "" stands for a body that is not JSON)
SendMessageChannel(i) ==
    /\ At(i, "sendMessage", "sm_channel")
    /\ Set(i, IF ~\E c \in channels : c.tenant_id = reqs[i].l.tenant /\ c.id = reqs[i].p.channelId
              THEN Respond(reqs[i], 404, "Unknown Channel")
              ELSE IF reqs[i].p.json = "" THEN Respond(reqs[i], 400, "Invalid request body")
              ELSE [reqs[i] EXCEPT !.pc = "sm_genid"])
    /\ UNCHANGED <<store, audit_logs, audit_seq, uuid, issued, handed>>

SendMessageGenerateId(i) ==
    /\ At(i, "sendMessage", "sm_genid")
    /\ GenerateId(i, "msg", "sm_insert")

\* INSERT INTO messages; PRIMARY KEY (tenant_id, id): a duplicate key rejects, and the
\* framework answers 500
SendMessageInsert(i) ==
    /\ At(i, "sendMessage", "sm_insert")
    /\ LET row == [tenant_id |-> reqs[i].l.tenant, id |-> reqs[i].l.id,
                   channel_id |-> reqs[i].p.channelId, payload |-> reqs[i].p.json]
       IN  IF \E k \in DOMAIN messages :
                 messages[k].tenant_id = row.tenant_id /\ messages[k].id = row.id
           THEN /\ UNCHANGED messages
                /\ Set(i, Respond(reqs[i], 500, "Internal Server Error"))
           ELSE /\ messages' = Append(messages, row)
                /\ Set(i, Respond(reqs[i], 200, "message"))
    /\ UNCHANGED <<tenants, guilds, channels, auth_codes, access_tokens, message_edits, reactions,
                   interaction_responses, followups, registered_commands,
                   audit_logs, audit_seq, uuid, issued, handed>>

-----------------------------------------------------------------------------
(* PUT /api/v10/channels/:channelId/messages/:messageId/reactions/:emoji/@me *)
(* (discord-api.ts, 1.7 Add Reaction).  decodeURIComponent(emojiRaw) is the *)
(* emoji the row stores; one emoji stands for all.                          *)

BeginAddReaction(max) ==
    /\ Len(reqs) < max
    /\ \E auth \in {"", "bot1", "bot2", "botX"}, ch \in {"c1", "c2", "cX"},
          m \in {<<"msg", 1>>, <<"msg", 9>>} :
         LET r == NewRequest("addReaction",
                             [auth |-> auth, channelId |-> ch, messageId |-> m, emoji |-> "e1"],
                             "ar_resolve")
         IN  \* what is never read (after a 401, after a 404) is not varied
             /\ (auth \in {"", "botX"} \/ ch = "cX") => m = <<"msg", 1>>
             /\ auth \in {"", "botX"} => ch = "c1"
             /\ Receive(IF auth = "" THEN Respond(r, 401, "401: Unauthorized") ELSE r)
    /\ UNCHANGED <<store, audit_logs, audit_seq, uuid, issued, handed>>

AddReactionResolve(i) ==
    /\ At(i, "addReaction", "ar_resolve")
    /\ LET tenant == resolveTenantByBotToken(reqs[i].p.auth)
       IN  Set(i, IF tenant = {} THEN Respond(reqs[i], 401, "401: Unauthorized")
                  ELSE [reqs[i] EXCEPT !.pc = "ar_channel", !.ctx = RowOf(tenant).id,
                                       !.l.tenant = RowOf(tenant).id])
    /\ UNCHANGED <<store, audit_logs, audit_seq, uuid, issued, handed>>

\* SELECT id FROM channels WHERE tenant_id = ? AND id = ?
AddReactionChannel(i) ==
    /\ At(i, "addReaction", "ar_channel")
    /\ Set(i, IF ~\E c \in channels : c.tenant_id = reqs[i].l.tenant /\ c.id = reqs[i].p.channelId
              THEN Respond(reqs[i], 404, "Unknown Channel")
              ELSE [reqs[i] EXCEPT !.pc = "ar_message"])
    /\ UNCHANGED <<store, audit_logs, audit_seq, uuid, issued, handed>>

\* a lookup that does not bind the channel
MessageInChannel_AnyChannel(tid, messageId, channelId) ==
    \E k \in DOMAIN messages :
        messages[k].tenant_id = tid /\ messages[k].id = messageId

\* SELECT id FROM messages WHERE tenant_id = ? AND id = ? AND channel_id = ?
MessageInChannel(tid, messageId, channelId) ==
    \E k \in DOMAIN messages :
        /\ messages[k].tenant_id = tid /\ messages[k].id = messageId
        /\ messages[k].channel_id = channelId

AddReactionMessage(i) ==
    /\ At(i, "addReaction", "ar_message")
    /\ Set(i, IF ~MessageInChannel(reqs[i].l.tenant, reqs[i].p.messageId, reqs[i].p.channelId)
              THEN Respond(reqs[i], 404, "Unknown Message")
              ELSE [reqs[i] EXCEPT !.pc = "ar_insert"])
    /\ UNCHANGED <<store, audit_logs, audit_seq, uuid, issued, handed>>

\* INSERT INTO reactions (id INTEGER PRIMARY KEY AUTOINCREMENT: no constraint to meet)
AddReactionInsert(i) ==
    /\ At(i, "addReaction", "ar_insert")
    /\ reactions' = Append(reactions, [tenant_id |-> reqs[i].l.tenant,
                                       channel_id |-> reqs[i].p.channelId,
                                       message_id |-> reqs[i].p.messageId,
                                       emoji |-> reqs[i].p.emoji])
    /\ Set(i, Respond(reqs[i], 204, ""))
    /\ UNCHANGED <<tenants, guilds, channels, auth_codes, access_tokens, messages, message_edits,
                   interaction_responses, followups, registered_commands,
                   audit_logs, audit_seq, uuid, issued, handed>>

-----------------------------------------------------------------------------
(* POST /api/v10/webhooks/:clientId/:interactionToken (discord-api.ts, 1.9 Send Followup). *)

BeginSendFollowup(max) ==
    /\ Len(reqs) < max
    /\ \E cid \in {"cid1", "cidX"}, body \in {"p1", ""} :
         /\ cid = "cidX" => body = "p1"
         /\ Receive(NewRequest("sendFollowup",
                               [clientId |-> cid, interactionToken |-> "tokA", json |-> body],
                               "fu_resolve"))
    /\ UNCHANGED <<store, audit_logs, audit_seq, uuid, issued, handed>>

\* resolveTenantByClientId, then requireJsonBody
SendFollowupResolve(i) ==
    /\ At(i, "sendFollowup", "fu_resolve")
    /\ LET tenant == resolveTenantByClientId(reqs[i].p.clientId)
       IN  Set(i, IF tenant = {} THEN Respond(reqs[i], 404, "Unknown Application")
                  ELSE IF reqs[i].p.json = ""
                  THEN Respond([reqs[i] EXCEPT !.ctx = RowOf(tenant).id], 400,
                               "Invalid request body")
                  ELSE [reqs[i] EXCEPT !.pc = "fu_genid", !.ctx = RowOf(tenant).id,
                                       !.l.tenant = RowOf(tenant).id])
    /\ UNCHANGED <<store, audit_logs, audit_seq, uuid, issued, handed>>

SendFollowupGenerateId(i) ==
    /\ At(i, "sendFollowup", "fu_genid")
    /\ GenerateId(i, "followup", "fu_insert")

\* INSERT INTO followups; PRIMARY KEY (tenant_id, id)
SendFollowupInsert(i) ==
    /\ At(i, "sendFollowup", "fu_insert")
    /\ LET row == [tenant_id |-> reqs[i].l.tenant, id |-> reqs[i].l.id,
                   interaction_token |-> reqs[i].p.interactionToken, payload |-> reqs[i].p.json]
       IN  IF \E k \in DOMAIN followups :
                 followups[k].tenant_id = row.tenant_id /\ followups[k].id = row.id
           THEN /\ UNCHANGED followups
                /\ Set(i, Respond(reqs[i], 500, "Internal Server Error"))
           ELSE /\ followups' = Append(followups, row)
                /\ Set(i, Respond(reqs[i], 200, "followup"))
    /\ UNCHANGED <<tenants, guilds, channels, auth_codes, access_tokens, messages, message_edits,
                   reactions, interaction_responses, registered_commands,
                   audit_logs, audit_seq, uuid, issued, handed>>

-----------------------------------------------------------------------------
(* PATCH /api/v10/channels/:channelId/messages/:messageId (discord-api.ts,  *)
(* 1.6 Edit Message).                                                       *)

MessageIdParams == {<<"msg", 1>>, <<"msg", 9>>}

BeginEditMessage(max) ==
    /\ Len(reqs) < max
    /\ \E auth \in {"", "bot1", "bot2", "botX"}, ch \in {"c1", "c2"}, m \in MessageIdParams,
          body \in Payloads \cup {""} :
         LET r == NewRequest("editMessage",
                             [auth |-> auth, channelId |-> ch, messageId |-> m, json |-> body],
                             "em_resolve")
         IN  \* what is never read (after a 401, after a 400) is not varied
             /\ (auth \in {"", "botX"} \/ body = "") => (ch = "c1" /\ m = <<"msg", 1>>)
             /\ auth \in {"", "botX"} => body = "p1"
             /\ auth = "bot2" => (ch = "c1" /\ m = <<"msg", 1>> /\ body = "p2")
             /\ (ch = "c2" \/ m # <<"msg", 1>>) => body = "p2"
             /\ Receive(IF auth = "" THEN Respond(r, 401, "401: Unauthorized") ELSE r)
    /\ UNCHANGED <<store, audit_logs, audit_seq, uuid, issued, handed>>

\* resolveTenantByBotToken, c.set("tenantId"), then requireJsonBody
EditMessageResolve(i) ==
    /\ At(i, "editMessage", "em_resolve")
    /\ LET tenant == resolveTenantByBotToken(reqs[i].p.auth)
       IN  Set(i, IF tenant = {} THEN Respond(reqs[i], 401, "401: Unauthorized")
                  ELSE IF reqs[i].p.json = ""
                  THEN Respond([reqs[i] EXCEPT !.ctx = RowOf(tenant).id,
                                               !.l.tenant = RowOf(tenant).id],
                               400, "Invalid request body")
                  ELSE [reqs[i] EXCEPT !.pc = "em_batch", !.ctx = RowOf(tenant).id,
                                       !.l.tenant = RowOf(tenant).id])
    /\ UNCHANGED <<store, audit_logs, audit_seq, uuid, issued, handed>>

\* the rows of messages matched by WHERE tenant_id = ? AND id = ? AND channel_id = ?
MatchingMessages(tid, m, ch) ==
    {k \in DOMAIN messages :
        messages[k].tenant_id = tid /\ messages[k].id = m /\ messages[k].channel_id = ch}

\* an INSERT ... SELECT whose WHERE does not bind the channel
EditHistoryInsert_AnyChannel(tid, m, ch) ==
    LET any == {k \in DOMAIN messages : messages[k].tenant_id = tid /\ messages[k].id = m}
    IN  IF any = {} THEN message_edits
        ELSE Append(message_edits,
                    [tenant_id |-> tid, message_id |-> m,
                     payload |-> messages[CHOOSE k \in any : TRUE].payload])

\* INSERT INTO message_edits ... SELECT tenant_id, id, payload FROM messages WHERE ...
EditHistoryInsert(tid, m, ch) ==
    IF MatchingMessages(tid, m, ch) = {} THEN message_edits
    ELSE LET k == CHOOSE k \in MatchingMessages(tid, m, ch) : TRUE
         IN  Append(message_edits,
                    [tenant_id |-> tid, message_id |-> m, payload |-> messages[k].payload])

\* the batch without the INSERT INTO message_edits
EditMessageBatch_NoHistory(i) ==
    /\ At(i, "editMessage", "em_batch")
    /\ LET tid == reqs[i].l.tenant
           hit == MatchingMessages(tid, reqs[i].p.messageId, reqs[i].p.channelId)
       IN  /\ message_edits' = message_edits
           /\ messages' = [k \in DOMAIN messages |->
                             IF k \in hit THEN [messages[k] EXCEPT !.payload = reqs[i].p.json]
                             ELSE messages[k]]
           /\ Set(i, IF hit = {} THEN Respond(reqs[i], 404, "Unknown Message")
                     ELSE Respond(reqs[i], 200, "message"))
    /\ UNCHANGED <<tenants, guilds, channels, auth_codes, access_tokens, reactions,
                   interaction_responses, followups, registered_commands,
                   audit_logs, audit_seq, uuid, issued, handed>>

\* db.batch([INSERT INTO message_edits ... SELECT, UPDATE messages SET payload = ?]);
\* results[1].meta.changes = 0 answers 404
EditMessageBatch(i) ==
    /\ At(i, "editMessage", "em_batch")
    /\ LET tid == reqs[i].l.tenant
           hit == MatchingMessages(tid, reqs[i].p.messageId, reqs[i].p.channelId)
       IN  /\ message_edits' = EditHistoryInsert(tid, reqs[i].p.messageId, reqs[i].p.channelId)
           /\ messages' = [k \in DOMAIN messages |->
                             IF k \in hit THEN [messages[k] EXCEPT !.payload = reqs[i].p.json]
                             ELSE messages[k]]
           /\ Set(i, IF hit = {} THEN Respond(reqs[i], 404, "Unknown Message")
                     ELSE Respond(reqs[i], 200, "message"))
    /\ UNCHANGED <<tenants, guilds, channels, auth_codes, access_tokens, reactions,
                   interaction_responses, followups, registered_commands,
                   audit_logs, audit_seq, uuid, issued, handed>>

-----------------------------------------------------------------------------
(* GET /_test/:tenantId/messages/:channelId (test-control.ts, 2.3 Get Messages). *)

RECURSIVE SelectSeq2(_, _)
\* the rows of a table, in table order, whose index is in the set keep
SelectSeq2(rows, keep) ==
    IF rows = <<>> THEN <<>>
    ELSE LET n == Len(rows)
             front == SelectSeq2(SubSeq(rows, 1, n - 1), keep)
         IN  IF n \in keep THEN Append(front, rows[n]) ELSE front

BeginGetMessages(max) ==
    /\ Len(reqs) < max
    /\ \E tid \in TenantIdParams :
         Receive(NewRequest("getMessages", [tenantId |-> tid, channelId |-> "c1"], "gm_resolve"))
    /\ UNCHANGED <<store, audit_logs, audit_seq, uuid, issued, handed>>

GetMessagesResolve(i) ==
    /\ At(i, "getMessages", "gm_resolve")
    /\ Set(i, IF resolveTenantById(reqs[i].p.tenantId) = {}
              THEN Respond(reqs[i], 404, "Tenant not found")
              ELSE [reqs[i] EXCEPT !.pc = "gm_messages", !.l.tenant = reqs[i].p.tenantId])
    /\ UNCHANGED <<store, audit_logs, audit_seq, uuid, issued, handed>>

\* SELECT id, channel_id, payload FROM messages WHERE tenant_id = ? AND channel_id = ?
GetMessagesSelectMessages(i) ==
    /\ At(i, "getMessages", "gm_messages")
    /\ LET keep == {k \in DOMAIN messages :
                       /\ messages[k].tenant_id = reqs[i].p.tenantId
                       /\ messages[k].channel_id = reqs[i].p.channelId}
       IN  Set(i, [reqs[i] EXCEPT !.pc = "gm_edits",
                                  !.l = [tenant |-> reqs[i].l.tenant,
                                         msgRows |-> SelectSeq2(messages, keep)]])
    /\ UNCHANGED <<store, audit_logs, audit_seq, uuid, issued, handed>>

\* the editHistory the handler attaches to message row: the payloads of editRows whose
\* message_id is the row's id, in editRows order
EditHistoryOf(editRows, id) ==
    LET hit == SelectSeq2(editRows, {k \in DOMAIN editRows : editRows[k].message_id = id})
    IN  [k \in DOMAIN hit |-> hit[k].payload]

\* SELECT ... FROM message_edits me JOIN messages m ... WHERE me.tenant_id = ? AND
\* m.channel_id = ?, then the grouping and the response
GetMessagesSelectEdits(i) ==
    /\ At(i, "getMessages", "gm_edits")
    /\ LET keep == {k \in DOMAIN message_edits :
                       /\ message_edits[k].tenant_id = reqs[i].p.tenantId
                       /\ \E j \in DOMAIN messages :
                             /\ messages[j].tenant_id = message_edits[k].tenant_id
                             /\ messages[j].id = message_edits[k].message_id
                             /\ messages[j].channel_id = reqs[i].p.channelId}
           editRows == SelectSeq2(message_edits, keep)
           msgRows == reqs[i].l.msgRows
           view == [k \in DOMAIN msgRows |->
                      [id |-> msgRows[k].id, channelId |-> msgRows[k].channel_id,
                       payload |-> msgRows[k].payload,
                       editHistory |-> EditHistoryOf(editRows, msgRows[k].id)]]
       IN  Set(i, Respond([reqs[i] EXCEPT !.l = [tenant |-> reqs[i].l.tenant, view |-> view]],
                          200, "messages"))
    /\ UNCHANGED <<store, audit_logs, audit_seq, uuid, issued, handed>>

-----------------------------------------------------------------------------
(* PATCH /api/v10/webhooks/:clientId/:interactionToken/messages/@original   *)
(* (discord-api.ts, 1.8 Edit Interaction Response).                         *)

InteractionTokens == {"tokA", "tokB"}

BeginInteractionResponse(max) ==
    /\ Len(reqs) < max
    /\ \E cid \in {"cid1", "cid2", "cidX"}, tok \in InteractionTokens, body \in Payloads \cup {""} :
         \* what is never read (after a 404, after a 400) is not varied
         /\ (cid = "cidX" \/ body = "") => tok = "tokA"
         /\ cid = "cidX" => body = "p1"
         /\ cid = "cid2" => (tok = "tokA" /\ body = "p1")
         /\ Receive(NewRequest("interactionResponse",
                               [clientId |-> cid, interactionToken |-> tok, json |-> body],
                               "ir_resolve"))
    /\ UNCHANGED <<store, audit_logs, audit_seq, uuid, issued, handed>>

\* resolveTenantByClientId, c.set("tenantId"), then requireJsonBody
InteractionResponseResolve(i) ==
    /\ At(i, "interactionResponse", "ir_resolve")
    /\ LET tenant == resolveTenantByClientId(reqs[i].p.clientId)
       IN  Set(i, IF tenant = {} THEN Respond(reqs[i], 404, "Unknown Application")
                  ELSE IF reqs[i].p.json = ""
                  THEN Respond([reqs[i] EXCEPT !.ctx = RowOf(tenant).id,
                                               !.l.tenant = RowOf(tenant).id],
                               400, "Invalid request body")
                  ELSE [reqs[i] EXCEPT !.pc = "ir_genid", !.ctx = RowOf(tenant).id,
                                       !.l.tenant = RowOf(tenant).id])
    /\ UNCHANGED <<store, audit_logs, audit_seq, uuid, issued, handed>>

InteractionResponseGenerateId(i) ==
    /\ At(i, "interactionResponse", "ir_genid")
    /\ GenerateId(i, "resp", "ir_upsert")

\* ON CONFLICT(tenant_id, interaction_token) DO NOTHING instead of DO UPDATE
UpsertResponse_KeepsExisting(rows, row) ==
    IF \E r \in rows : r.tenant_id = row.tenant_id /\ r.interaction_token = row.interaction_token
    THEN rows
    ELSE rows \cup {row}

\* INSERT INTO interaction_responses ... ON CONFLICT(tenant_id, interaction_token) DO UPDATE
\* SET response_id, payload, responded_at
UpsertResponse(rows, row) ==
    {r \in rows : ~(r.tenant_id = row.tenant_id /\ r.interaction_token = row.interaction_token)}
    \cup {row}

InteractionResponseUpsert(i) ==
    /\ At(i, "interactionResponse", "ir_upsert")
    /\ interaction_responses' =
          UpsertResponse(interaction_responses,
                         [tenant_id |-> reqs[i].l.tenant,
                          interaction_token |-> reqs[i].p.interactionToken,
                          response_id |-> reqs[i].l.id, payload |-> reqs[i].p.json])
    /\ Set(i, Respond(reqs[i], 200, "response"))
    /\ UNCHANGED <<tenants, guilds, channels, auth_codes, access_tokens, messages, message_edits,
                   reactions, followups, registered_commands,
                   audit_logs, audit_seq, uuid, issued, handed>>

-----------------------------------------------------------------------------
(* PUT /api/v10/applications/:clientId/guilds/:guildId/commands             *)
(* (discord-api.ts, 1.10 Bulk Overwrite Guild Commands).                    *)

\* request bodies: json is "array" for a JSON array (of the commands given), "" for a body
\* that is not JSON, and "obj" for a JSON object, which `for (const cmd of commands)`
\* cannot iterate
CommandBodies ==
    {[json |-> "array", commands |-> cs] : cs \in {<<>>, <<"p1">>, <<"p1", "p2">>}}
    \cup {[json |-> j, commands |-> <<>>] : j \in {"", "obj"}}

IsCommandArray(body) == body.json = "array"

BeginBulkOverwrite(max) ==
    /\ Len(reqs) < max
    /\ \E auth \in {"", "bot1", "botX"}, cid \in {"cid1", "cid2", "cidX"},
          g \in {"g1", "g2", "gX"}, body \in CommandBodies :
         LET r == NewRequest("bulkOverwrite",
                             [auth |-> auth, clientId |-> cid, guildId |-> g,
                              json |-> body.json, commands |-> body.commands],
                             "bo_resolve")
         IN  \* what is never read (after a 401, a 400, a 404) is not varied
             /\ auth \in {"", "botX"} => (cid = "cid1" /\ g = "g1")
             /\ cid # "cid1" => g # "g2"
             /\ (auth \in {"", "botX"} \/ cid # "cid1" \/ g # "g1")
                   => body = [json |-> "array", commands |-> <<"p1">>]
             /\ Receive(IF auth = "" THEN Respond(r, 401, "401: Unauthorized") ELSE r)
    /\ UNCHANGED <<store, audit_logs, audit_seq, uuid, issued, handed>>

\* the handler without the clientId cross-check
BulkOverwriteResolve_NoCrossCheck(i) ==
    /\ At(i, "bulkOverwrite", "bo_resolve")
    /\ LET tenant == resolveTenantByBotToken(reqs[i].p.auth)
       IN  Set(i, IF tenant = {} THEN Respond(reqs[i], 401, "401: Unauthorized")
                  ELSE [reqs[i] EXCEPT !.pc = "bo_guild", !.ctx = RowOf(tenant).id,
                                       !.l.tenant = RowOf(tenant).id])
    /\ UNCHANGED <<store, audit_logs, audit_seq, uuid, issued, handed>>

\* resolveTenantByBotToken, c.set("tenantId"), then the clientId cross-check
BulkOverwriteResolve(i) ==
    /\ At(i, "bulkOverwrite", "bo_resolve")
    /\ LET tenant == resolveTenantByBotToken(reqs[i].p.auth)
       IN  Set(i, IF tenant = {} THEN Respond(reqs[i], 401, "401: Unauthorized")
                  ELSE IF RowOf(tenant).client_id # reqs[i].p.clientId
                  THEN Respond([reqs[i] EXCEPT !.ctx = RowOf(tenant).id,
                                               !.l.tenant = RowOf(tenant).id],
                               400, "client_id mismatch")
                  ELSE [reqs[i] EXCEPT !.pc = "bo_guild", !.ctx = RowOf(tenant).id,
                                       !.l.tenant = RowOf(tenant).id])
    /\ UNCHANGED <<store, audit_logs, audit_seq, uuid, issued, handed>>

\* SELECT id FROM guilds WHERE tenant_id = ? AND id = ?, then requireJsonBody; the loop
\* over a body that is not iterable throws, and the framework answers 500
BulkOverwriteGuild(i) ==
    /\ At(i, "bulkOverwrite", "bo_guild")
    /\ LET body == reqs[i].p
           started == [reqs[i] EXCEPT !.l = [tenant |-> reqs[i].l.tenant, ids |-> <<>>]]
       IN  Set(i, IF ~\E g \in guilds : g.tenant_id = reqs[i].l.tenant /\ g.id = reqs[i].p.guildId
                  THEN Respond(reqs[i], 404, "Unknown Guild")
                  ELSE IF body.json = "" THEN Respond(reqs[i], 400, "Invalid request body")
                  ELSE IF ~IsCommandArray(body)
                  THEN Respond(reqs[i], 500, "Internal Server Error")
                  ELSE IF body.commands = <<>> THEN [started EXCEPT !.pc = "bo_batch"]
                  ELSE [started EXCEPT !.pc = "bo_genid"])
    /\ UNCHANGED <<store, audit_logs, audit_seq, uuid, issued, handed>>

\* one iteration of the loop: `await generateId(tenant.id, "cmd")`
BulkOverwriteGenerateId(i) ==
    /\ At(i, "bulkOverwrite", "bo_genid")
    /\ LET tid == reqs[i].l.tenant
           rows == ReturnedRows(tid)
       IN  /\ tenants' = IncrementNextId(tid)
           /\ IF rows = {}
              THEN /\ Set(i, Respond(reqs[i], 500, "Internal Server Error"))
                   /\ UNCHANGED <<issued, handed>>
              ELSE LET id == IdFromReturned("cmd", RowOf(rows).next_id)
                       ids == Append(reqs[i].l.ids, id)
                   IN  /\ Set(i, [reqs[i] EXCEPT
                                    !.pc = IF Len(ids) = Len(reqs[i].p.commands) THEN "bo_batch"
                                           ELSE "bo_genid",
                                    !.l = [tenant |-> tid, ids |-> ids]])
                       /\ issued' = issued \cup {[tenant_id |-> tid, id |-> id]}
                       /\ handed' = handed \cup {[tenant_id |-> tid, id |-> id]}
    /\ UNCHANGED <<guilds, channels, mutableTables, audit_logs, audit_seq, uuid>>

\* the rows the INSERT statements of request r carry
CommandRows(r) ==
    [k \in DOMAIN r.l.ids |->
       [tenant_id |-> r.l.tenant, id |-> r.l.ids[k], guild_id |-> r.p.guildId,
        payload |-> r.p.commands[k]]]

\* registered_commands without the rows of (tenant tid, guild g)
CommandsElsewhere(tid, g) ==
    SelectSeq2(registered_commands,
               {k \in DOMAIN registered_commands :
                   ~(registered_commands[k].tenant_id = tid /\ registered_commands[k].guild_id = g)})

\* the batch without its DELETE statement
BulkOverwriteBatch_Merges(i) ==
    /\ At(i, "bulkOverwrite", "bo_batch")
    /\ registered_commands' = registered_commands \o CommandRows(reqs[i])
    /\ Set(i, Respond(reqs[i], 200, "commands"))
    /\ UNCHANGED <<tenants, guilds, channels, auth_codes, access_tokens, messages, message_edits,
                   reactions, interaction_responses, followups,
                   audit_logs, audit_seq, uuid, issued, handed>>

\* the DELETE run as a statement of its own, the INSERTs left for a later statement
BulkOverwriteBatch_DeleteFirst(i) ==
    /\ At(i, "bulkOverwrite", "bo_batch")
    /\ registered_commands' = CommandsElsewhere(reqs[i].l.tenant, reqs[i].p.guildId)
    /\ Set(i, [reqs[i] EXCEPT !.pc = "bo_insert"])
    /\ UNCHANGED <<tenants, guilds, channels, auth_codes, access_tokens, messages, message_edits,
                   reactions, interaction_responses, followups,
                   audit_logs, audit_seq, uuid, issued, handed>>

\* db.batch([DELETE FROM registered_commands WHERE tenant_id = ? AND guild_id = ?,
\* INSERT ..., INSERT ...]); PRIMARY KEY (tenant_id, id): a duplicate key rejects the
\* batch, and the framework answers 500
BulkOverwriteBatch(i) ==
    /\ At(i, "bulkOverwrite", "bo_batch")
    /\ LET kept == CommandsElsewhere(reqs[i].l.tenant, reqs[i].p.guildId)
           new == CommandRows(reqs[i])
       IN  IF \E k \in DOMAIN kept, n \in DOMAIN new :
                 kept[k].tenant_id = new[n].tenant_id /\ kept[k].id = new[n].id
           THEN /\ UNCHANGED registered_commands
                /\ Set(i, Respond(reqs[i], 500, "Internal Server Error"))
           ELSE /\ registered_commands' = kept \o new
                /\ Set(i, Respond(reqs[i], 200, "commands"))
    /\ UNCHANGED <<tenants, guilds, channels, auth_codes, access_tokens, messages, message_edits,
                   reactions, interaction_responses, followups,
                   audit_logs, audit_seq, uuid, issued, handed>>

-----------------------------------------------------------------------------
(* GET /_test/:tenantId/commands/:guildId (test-control.ts, 2.7 Get Registered Commands). *)

BeginGetCommands(max) ==
    /\ Len(reqs) < max
    /\ \E tid \in TenantIdParams :
         Receive(NewRequest("getCommands", [tenantId |-> tid, guildId |-> "g1"], "gc_resolve"))
    /\ UNCHANGED <<store, audit_logs, audit_seq, uuid, issued, handed>>

GetCommandsResolve(i) ==
    /\ At(i, "getCommands", "gc_resolve")
    /\ Set(i, IF resolveTenantById(reqs[i].p.tenantId) = {}
              THEN Respond(reqs[i], 404, "Tenant not found")
              ELSE [reqs[i] EXCEPT !.pc = "gc_select", !.l.tenant = reqs[i].p.tenantId])
    /\ UNCHANGED <<store, audit_logs, audit_seq, uuid, issued, handed>>

\* the rows of (tenant tid, guild g) in a registered_commands table, as the getter maps them
CommandsOf(rows, tid, g) ==
    LET hit == SelectSeq2(rows, {k \in DOMAIN rows : rows[k].tenant_id = tid /\ rows[k].guild_id = g})
    IN  [k \in DOMAIN hit |-> [id |-> hit[k].id, payload |-> hit[k].payload]]

\* SELECT id, payload FROM registered_commands WHERE tenant_id = ? AND guild_id = ?
GetCommandsSelect(i) ==
    /\ At(i, "getCommands", "gc_select")
    /\ Set(i, Respond([reqs[i] EXCEPT !.l = [tenant |-> reqs[i].l.tenant,
                                             commands |-> CommandsOf(registered_commands,
                                                                     reqs[i].p.tenantId,
                                                                     reqs[i].p.guildId)]],
                      200, "commands"))
    /\ UNCHANGED <<store, audit_logs, audit_seq, uuid, issued, handed>>

-----------------------------------------------------------------------------
(* Tenant lifecycle: the service as deployed (migrations 001 and 002 leave   *)
(* every table empty), receiving create-tenant and delete-tenant requests.   *)

Init ==
    /\ tenants = {} /\ guilds = {} /\ channels = {}
    /\ auth_codes = {} /\ access_tokens = {} /\ interaction_responses = {}
    /\ messages = <<>> /\ message_edits = <<>> /\ reactions = <<>>
    /\ followups = <<>> /\ registered_commands = <<>>
    /\ audit_logs = <<>> /\ audit_seq = 0
    /\ uuid = 0 /\ reqs = <<>> /\ issued = {} /\ handed = {}

Next ==
    \/ BeginCreateTenant(MaxLifecycleRequests)
    \/ BeginDeleteTenant(MaxLifecycleRequests)
    \/ \E i \in DOMAIN reqs : CreateTenantCheckBot(i)
    \/ \E i \in DOMAIN reqs : CreateTenantCheckClient(i)
    \/ \E i \in DOMAIN reqs : CreateTenantBatch(i)
    \/ \E i \in DOMAIN reqs : DeleteTenantResolve(i)
    \/ \E i \in DOMAIN reqs : DeleteTenantBatch(i)
    \/ \E i \in DOMAIN reqs : AuditLog(i)

Spec == Init /\ [][Next]_vars

\* the handler of request i has produced its response
Responded(i) == reqs[i].status # 0

\* C3: two concurrent create-tenant requests with the same botToken or the same clientId,
\* both otherwise valid: one answers 201 and the other 409, no other status occurs, and
\* exactly one tenant row holds the shared credential.
C3_ConcurrentCreateOne201One409 ==
    \A i, j \in DOMAIN reqs :
        ( /\ Len(reqs) = 2 /\ i # j
          /\ reqs[i].kind = "createTenant" /\ reqs[j].kind = "createTenant"
          /\ ValidTenantBody(reqs[i].p) /\ ValidTenantBody(reqs[j].p)
          /\ \/ reqs[i].p.botToken = reqs[j].p.botToken
             \/ reqs[i].p.clientId = reqs[j].p.clientId
          /\ Responded(i) /\ Responded(j) )
        => /\ {reqs[i].status, reqs[j].status} = {201, 409}
           /\ reqs[i].p.botToken = reqs[j].p.botToken
                => Cardinality(resolveTenantByBotToken(reqs[i].p.botToken)) = 1
           /\ reqs[i].p.clientId = reqs[j].p.clientId
                => Cardinality(resolveTenantByClientId(reqs[i].p.clientId)) = 1

UniqueCredentials ==
    \A t1, t2 \in tenants :
        t1 # t2 => t1.bot_token # t2.bot_token /\ t1.client_id # t2.client_id /\ t1.id # t2.id

\* a step in which request i runs the uniqueness SELECT for a credential some tenant holds
DuplicateRejected ==
    \A i \in DOMAIN reqs :
        ( /\ reqs[i].kind = "createTenant"
          /\ reqs'[i] # reqs[i]
          /\ \/ reqs[i].pc = "ct_bot" /\ \E t \in tenants : t.bot_token = reqs[i].p.botToken
             \/ reqs[i].pc = "ct_client" /\ \E t \in tenants : t.client_id = reqs[i].p.clientId )
        => /\ reqs'[i].status = 409
           /\ tenants' = tenants /\ guilds' = guilds /\ channels' = channels

\* C4: in every reachable state no two tenant rows share a bot_token or a client_id; a
\* create-tenant request that finds its botToken or clientId held by an existing tenant
\* answers 409 and adds no tenant, guild or channel row.
C4_UniqueCredentials == []UniqueCredentials /\ [][DuplicateRejected]_vars

C4_Witness ==
    \E i \in DOMAIN reqs :
        /\ reqs[i].kind = "createTenant" /\ reqs[i].status = 409
        /\ \E t \in tenants : t.bot_token = reqs[i].p.botToken \/ t.client_id = reqs[i].p.clientId

-----------------------------------------------------------------------------
(* OAuth: two tenants have been created (two POST /_test/tenants answered   *)
(* 201) and POST /_test/1/auth-code has issued one code for the first; all  *)
(* three requests were audited.  Codes are issued and exchanged.            *)

\* the rows of two created tenants whose counters stand at n1 and n2
TenantRows(n1, n2) ==
    {[id |-> 1, bot_token |-> "bot1", client_id |-> "cid1", client_secret |-> "s1", next_id |-> n1],
     [id |-> 2, bot_token |-> "bot2", client_id |-> "cid2", client_secret |-> "s2", next_id |-> n2]}

\* the guild and channel rows the two create-tenant batches inserted
TwoTopologies ==
    /\ guilds = {[tenant_id |-> 1, id |-> "g1"], [tenant_id |-> 1, id |-> "g2"],
                 [tenant_id |-> 2, id |-> "g1"]}
    /\ channels = {[tenant_id |-> 1, guild_id |-> "g1", id |-> "c1"],
                   [tenant_id |-> 1, guild_id |-> "g2", id |-> "c2"],
                   [tenant_id |-> 2, guild_id |-> "g1", id |-> "c1"]}

\* the audit row of an earlier request of a test-control route (which leaves ctx unset)
ControlAuditRow(n, method, url, status) ==
    [id |-> n, tenant_id |-> 0, method |-> method, url |-> url, response_status |-> status]

InitOAuth ==
    /\ tenants = TenantRows(1, 1)
    /\ TwoTopologies
    /\ \E uri \in {"", "r1"} :
         auth_codes = {[code |-> 3, tenant_id |-> 1, guild_id |-> "g1", redirect_uri |-> uri]}
    /\ uuid = 3
    /\ access_tokens = {} /\ interaction_responses = {}
    /\ messages = <<>> /\ message_edits = <<>> /\ reactions = <<>>
    /\ followups = <<>> /\ registered_commands = <<>>
    /\ audit_logs = <<ControlAuditRow(1, "POST", "createTenant", 201),
                      ControlAuditRow(2, "POST", "createTenant", 201),
                      ControlAuditRow(3, "POST", "authCode", 200)>>
    /\ audit_seq = 3
    /\ reqs = <<>> /\ issued = {} /\ handed = {}

NextOAuth ==
    \/ BeginAuthCode(MaxOAuthRequests)
    \/ BeginAuthorize(MaxOAuthRequests)
    \/ BeginTokenExchange(MaxOAuthRequests)
    \/ \E i \in DOMAIN reqs : AuthCodeResolve(i)
    \/ \E i \in DOMAIN reqs : AuthCodeGuild(i)
    \/ \E i \in DOMAIN reqs : AuthCodeInsert(i)
    \/ \E i \in DOMAIN reqs : AuthorizeResolve(i)
    \/ \E i \in DOMAIN reqs : AuthorizeFirstGuild(i)
    \/ \E i \in DOMAIN reqs : AuthorizeInsert(i)
    \/ \E i \in DOMAIN reqs : TokenExchangeResolve(i)
    \/ \E i \in DOMAIN reqs : TokenExchangeSelect(i)
    \/ \E i \in DOMAIN reqs : TokenExchangeDelete(i)
    \/ \E i \in DOMAIN reqs : TokenExchangeInsert(i)
    \/ \E i \in DOMAIN reqs : TokenExchangeGuild(i)
    \/ \E i \in DOMAIN reqs : AuditLog(i)

SpecOAuth == InitOAuth /\ [][NextOAuth]_vars

IsExchange(i) == reqs[i].kind = "exchange"

\* request i was handed an access token row
IssuedToken(i) == "accessToken" \in DOMAIN reqs[i].l

\* C1: a pending auth code is exchanged successfully exactly once: once an exchange of a
\* code has answered 200, any other exchange of that code is never answered 200, never
\* reaches the INSERT of an access token, and, when it presents valid client credentials,
\* is answered 401 invalid_grant.
C1_CodeExchangedOnce ==
    \A i, j \in DOMAIN reqs :
        ( /\ i # j /\ IsExchange(i) /\ IsExchange(j)
          /\ reqs[i].p.code = reqs[j].p.code
          /\ reqs[j].status = 200 )
        => /\ reqs[i].status # 200
           /\ ~IssuedToken(i)
           /\ reqs[i].pc \notin {"ex_insert", "ex_guild"}
           /\ (Responded(i) /\ reqs[i].l.tenant # 0)
                => reqs[i].status = 401 /\ reqs[i].body = "invalid_grant"

\* an exchange answered 200, then a second exchange of the same code, which finds no row
C1_Witness ==
    \E i, j \in DOMAIN reqs :
        /\ j < i /\ IsExchange(i) /\ IsExchange(j)
        /\ reqs[i].p.code = reqs[j].p.code
        /\ reqs[j].status = 200 /\ reqs[j].pc = "done"
        /\ reqs[i].pc = "done" /\ reqs[i].status = 401 /\ reqs[i].body = "invalid_grant"
        /\ reqs[i].p = reqs[j].p
        /\ "authCode" \notin DOMAIN reqs[i].l

\* requests i and j are the only exchanges of their code, and both present the client
\* credentials and the redirect_uri of the code row that one of them read
TwoExchangesOfOnePendingCode(i, j) ==
    /\ i # j /\ IsExchange(i) /\ IsExchange(j)
    /\ reqs[i].p.code = reqs[j].p.code
    /\ \A k \in DOMAIN reqs : (IsExchange(k) /\ reqs[k].p.code = reqs[i].p.code) => k \in {i, j}
    /\ reqs[i].l.tenant # 0 /\ reqs[j].l.tenant # 0
    /\ \E k \in {i, j} :
         /\ "authCode" \in DOMAIN reqs[k].l
         /\ reqs[i].l.tenant = reqs[k].l.authCode.tenant_id
         /\ reqs[j].l.tenant = reqs[k].l.authCode.tenant_id
         /\ RedirectUriAccepted(reqs[k].l.authCode.redirect_uri, reqs[i].p.redirect_uri)
         /\ RedirectUriAccepted(reqs[k].l.authCode.redirect_uri, reqs[j].p.redirect_uri)

\* C2: of two exchanges that present the same pending code with correct client_id,
\* client_secret and redirect_uri, in every interleaving exactly one is answered 200 and
\* the other 401 invalid_grant, and exactly one access_tokens row is created.
C2_RacingExchanges ==
    \A i, j \in DOMAIN reqs :
        (TwoExchangesOfOnePendingCode(i, j) /\ Responded(i) /\ Responded(j))
        => /\ {reqs[i].status, reqs[j].status} = {200, 401}
           /\ \A k \in {i, j} : reqs[k].status = 401 => reqs[k].body = "invalid_grant"
           /\ Cardinality({k \in {i, j} : IssuedToken(k)}) = 1
           /\ Cardinality({a \in access_tokens :
                             \E k \in {i, j} : IssuedToken(k) /\ a.token = reqs[k].l.accessToken}) = 1

\* a true race: the loser read the code row before the winner's DELETE
C2_Witness ==
    \E i, j \in DOMAIN reqs :
        /\ TwoExchangesOfOnePendingCode(i, j)
        /\ reqs[i].pc = "done" /\ reqs[j].pc = "done"
        /\ reqs[i].status = 200
        /\ reqs[j].status = 401 /\ "authCode" \in DOMAIN reqs[j].l

-----------------------------------------------------------------------------
(* Id generation: two tenants have been created; the first has sent s - 1   *)
(* messages (s in 1..2), so its counter stands at s.  Messages and          *)
(* followups are sent and tenants are reset, concurrently.                  *)

\* the audit row of an earlier request that set tenantId in the request context
TenantAuditRow(n, tid, method, url, status) ==
    [id |-> n, tenant_id |-> tid, method |-> method, url |-> url, response_status |-> status]

InitIds ==
    /\ TwoTopologies
    /\ \E s \in 1..2 :
         /\ tenants = TenantRows(s, 1)
         /\ messages = [k \in 1..(s - 1) |->
                          [tenant_id |-> 1, id |-> <<"msg", k>>, channel_id |-> "c1", payload |-> "p1"]]
         /\ issued = {[tenant_id |-> 1, id |-> <<"msg", k>>] : k \in 1..(s - 1)}
         /\ handed = issued
         /\ audit_logs = <<ControlAuditRow(1, "POST", "createTenant", 201),
                           ControlAuditRow(2, "POST", "createTenant", 201)>>
                         \o [k \in 1..(s - 1) |-> TenantAuditRow(2 + k, 1, "POST", "sendMessage", 200)]
         /\ audit_seq = s + 1
    /\ uuid = 2
    /\ auth_codes = {} /\ access_tokens = {} /\ interaction_responses = {}
    /\ message_edits = <<>> /\ reactions = <<>>
    /\ followups = <<>> /\ registered_commands = <<>>
    /\ reqs = <<>>

NextIds ==
    \/ BeginSendMessage(MaxIdRequests)
    \/ BeginSendFollowup(MaxIdRequests)
    \/ BeginReset(MaxIdRequests)
    \/ \E i \in DOMAIN reqs : SendMessageResolve(i)
    \/ \E i \in DOMAIN reqs : SendMessageChannel(i)
    \/ \E i \in DOMAIN reqs : SendMessageGenerateId(i)
    \/ \E i \in DOMAIN reqs : SendMessageInsert(i)
    \/ \E i \in DOMAIN reqs : SendFollowupResolve(i)
    \/ \E i \in DOMAIN reqs : SendFollowupGenerateId(i)
    \/ \E i \in DOMAIN reqs : SendFollowupInsert(i)
    \/ \E i \in DOMAIN reqs : ResetResolve(i)
    \/ \E i \in DOMAIN reqs : ResetBatch(i)
    \/ \E i \in DOMAIN reqs : AuditLog(i)

SpecIds == InitIds /\ [][NextIds]_vars

\* the requests whose generateId call for tenant tid has returned
Generated(tid) ==
    {i \in DOMAIN reqs : "id" \in DOMAIN reqs[i].l /\ reqs[i].l.tenant = tid}

\* the number k of the id "P-k" request i was given
NumberOf(i) == reqs[i].l.id[2]

\* no reset of tenant tid has run its batch
NoResetOf(tid) ==
    \A i \in DOMAIN reqs :
        reqs[i].kind = "reset" /\ reqs[i].p.tenantId = tid => reqs[i].status # 200

\* the ids of tenant tid returned before any of the requests called generateId
IssuedBefore(tid) ==
    {x \in issued : x.tenant_id = tid /\ \A i \in Generated(tid) : reqs[i].l.id # x.id}

\* C5: with no reset of the tenant, after n generateId calls for it have returned, in
\* whatever order their statements interleave with each other and with other requests,
\* starting from next_id = s: the n numbers are pairwise distinct, they are exactly
\* s, s+1, ..., s+n-1, and next_id is s+n.
C5_ConcurrentIdsDistinctContiguous ==
    \A t \in tenants :
        NoResetOf(t.id) =>
            LET G == Generated(t.id)
                n == Cardinality(G)
                s == 1 + Cardinality(IssuedBefore(t.id))
            IN  /\ \A i, j \in G : i # j => NumberOf(i) # NumberOf(j)
                /\ {NumberOf(i) : i \in G} = s..(s + n - 1)
                /\ t.next_id = s + n

\* two requests of one tenant hold generated ids at once, neither has inserted its row yet,
\* and the tenant's counter did not start at 1
C5_Witness ==
    \E i, j \in DOMAIN reqs :
        /\ i # j /\ NoResetOf(1)
        /\ reqs[i].pc = "sm_insert" /\ reqs[j].pc = "fu_insert"
        /\ reqs[i].l.tenant = 1 /\ reqs[j].l.tenant = 1
        /\ NumberOf(i) = 3 /\ NumberOf(j) = 2

\* a generateId call of request i returns in this step
Returns(i) == "id" \notin DOMAIN reqs[i].l /\ "id" \in DOMAIN reqs'[i].l

\* C6 as amended: every generateId call for a tenant returns "P-k" with k strictly greater
\* than every k returned for that tenant since its creation or its last reset, so no id is
\* handed out twice between two resets.
C6_IdsIncreaseSinceReset ==
    [][\A i \in DOMAIN reqs :
          Returns(i) => \A x \in issued :
                           x.tenant_id = reqs'[i].l.tenant => x.id[2] < reqs'[i].l.id[2]]_vars

\* a message is sent, the tenant is reset, and the next message gets an id again
C6_Witness ==
    \E i, j \in DOMAIN reqs :
        /\ reqs[i].kind = "reset" /\ reqs[i].status = 200 /\ reqs[i].p.tenantId = 1
        /\ reqs[j].kind = "sendMessage" /\ reqs[j].status = 200 /\ reqs[j].l.tenant = 1
        /\ reqs[j].l.id = <<"msg", 1>>
        /\ [tenant_id |-> 1, id |-> <<"msg", 1>>] \in issued
        /\ tenants = TenantRows(2, 1)

\* C6 as stated: every generateId call for a tenant returns "P-k" with k strictly greater
\* than every k ever returned for that tenant, so no id is handed out twice in the
\* tenant's lifetime.
C6_IdsIncreaseOverLifetime ==
    [][\A i \in DOMAIN reqs :
          Returns(i) => \A x \in handed :
                           x.tenant_id = reqs'[i].l.tenant => x.id[2] < reqs'[i].l.id[2]]_vars

-----------------------------------------------------------------------------
(* Reset and delete on tenants in use.  Two tenants have been created.  For *)
(* the first, two auth codes were issued and one exchanged, and a message,  *)
(* an edit, a reaction, an interaction response, a followup and a command   *)
(* registration were stored (ids msg-1, resp-2, followup-3, cmd-4); the     *)
(* second has sent one message.  Every request was audited.  Tenants are    *)
(* reset and deleted while messages are sent.                               *)

InitReset ==
    /\ TwoTopologies
    /\ tenants = TenantRows(5, 2)
    /\ auth_codes = {[code |-> 3, tenant_id |-> 1, guild_id |-> "g1", redirect_uri |-> "r1"]}
    /\ access_tokens = {[token |-> <<1, 5>>, tenant_id |-> 1]}
    /\ uuid = 6
    /\ messages = <<[tenant_id |-> 1, id |-> <<"msg", 1>>, channel_id |-> "c1", payload |-> "p2"],
                    [tenant_id |-> 2, id |-> <<"msg", 1>>, channel_id |-> "c1", payload |-> "p1"]>>
    /\ message_edits = <<[tenant_id |-> 1, message_id |-> <<"msg", 1>>, payload |-> "p1"]>>
    /\ reactions = <<[tenant_id |-> 1, channel_id |-> "c1", message_id |-> <<"msg", 1>>,
                      emoji |-> "e1"]>>
    /\ interaction_responses = {[tenant_id |-> 1, interaction_token |-> "tokA",
                                 response_id |-> <<"resp", 2>>, payload |-> "p1"]}
    /\ followups = <<[tenant_id |-> 1, id |-> <<"followup", 3>>, interaction_token |-> "tokA",
                      payload |-> "p1"]>>
    /\ registered_commands = <<[tenant_id |-> 1, id |-> <<"cmd", 4>>, guild_id |-> "g1",
                                payload |-> "p1"]>>
    /\ issued = {[tenant_id |-> 1, id |-> <<"msg", 1>>], [tenant_id |-> 1, id |-> <<"resp", 2>>],
                 [tenant_id |-> 1, id |-> <<"followup", 3>>], [tenant_id |-> 1, id |-> <<"cmd", 4>>],
                 [tenant_id |-> 2, id |-> <<"msg", 1>>]}
    /\ handed = issued
    /\ audit_logs = <<ControlAuditRow(1, "POST", "createTenant", 201),
                      ControlAuditRow(2, "POST", "createTenant", 201),
                      ControlAuditRow(3, "POST", "authCode", 200),
                      ControlAuditRow(4, "POST", "authCode", 200),
                      TenantAuditRow(5, 1, "POST", "exchange", 200),
                      TenantAuditRow(6, 1, "POST", "sendMessage", 200),
                      TenantAuditRow(7, 1, "PATCH", "editMessage", 200),
                      TenantAuditRow(8, 1, "PUT", "addReaction", 204),
                      TenantAuditRow(9, 1, "PATCH", "interactionResponse", 200),
                      TenantAuditRow(10, 1, "POST", "sendFollowup", 200),
                      TenantAuditRow(11, 1, "PUT", "bulkOverwrite", 200),
                      TenantAuditRow(12, 2, "POST", "sendMessage", 200)>>
    /\ audit_seq = 12
    /\ reqs = <<>>

NextReset ==
    \/ BeginReset(MaxResetRequests)
    \/ BeginDeleteTenant(MaxResetRequests)
    \/ BeginSendMessage(MaxResetRequests)
    \/ \E i \in DOMAIN reqs : ResetResolve(i)
    \/ \E i \in DOMAIN reqs : ResetBatch(i)
    \/ \E i \in DOMAIN reqs : DeleteTenantResolve(i)
    \/ \E i \in DOMAIN reqs : DeleteTenantBatch(i)
    \/ \E i \in DOMAIN reqs : SendMessageResolve(i)
    \/ \E i \in DOMAIN reqs : SendMessageChannel(i)
    \/ \E i \in DOMAIN reqs : SendMessageGenerateId(i)
    \/ \E i \in DOMAIN reqs : SendMessageInsert(i)
    \/ \E i \in DOMAIN reqs : AuditLog(i)

SpecReset == InitReset /\ [][NextReset]_vars

\* request i, of the given kind, is answered with the given status in this step
Answers(i, kind, status) ==
    reqs[i].kind = kind /\ reqs[i].status = 0 /\ reqs'[i].status = status

\* the eight mutable tables, after the step, hold no row of tenant tid
NoMutableRowsAfter(tid) ==
    /\ \A r \in auth_codes' \cup access_tokens' \cup interaction_responses' : r.tenant_id # tid
    /\ \A r \in SeqToSet(messages') \cup SeqToSet(message_edits') \cup SeqToSet(reactions')
                \cup SeqToSet(followups') \cup SeqToSet(registered_commands') : r.tenant_id # tid

\* C7: when a reset of tenant T is answered 200, T has no rows in followups,
\* interaction_responses, registered_commands, reactions, message_edits, messages,
\* access_tokens and auth_codes, its next_id is 1 and its tenant row is otherwise as before
\* (for a tenant row that a concurrent delete has not removed), and its guilds and channels
\* rows are as before; the first message id generated for T after a reset, with no other
\* id generated since, is msg-1.
C7_ResetClearsMutableState ==
    [][\A i \in DOMAIN reqs :
          /\ Answers(i, "reset", 200) =>
                LET tid == reqs[i].p.tenantId
                IN  /\ NoMutableRowsAfter(tid)
                    /\ \A t \in tenants :
                          t.id = tid => {u \in tenants' : u.id = tid} = {[t EXCEPT !.next_id = 1]}
                    /\ {g \in guilds' : g.tenant_id = tid} = {g \in guilds : g.tenant_id = tid}
                    /\ {c \in channels' : c.tenant_id = tid} = {c \in channels : c.tenant_id = tid}
          /\ ( /\ Returns(i) /\ reqs[i].kind = "sendMessage"
               /\ \E j \in DOMAIN reqs : reqs[j].kind = "reset" /\ reqs[j].status = 200
                                         /\ reqs[j].p.tenantId = reqs[i].l.tenant
               /\ \A x \in issued : x.tenant_id # reqs[i].l.tenant )
             => reqs'[i].l.id = <<"msg", 1>>]_vars

\* a reset that removed the rows of all eight tables has been answered 200, the tenant's
\* topology is in place, and the next message got msg-1
C7_Witness ==
    \E i, j \in DOMAIN reqs :
        /\ reqs[i].kind = "reset" /\ reqs[i].status = 200 /\ reqs[i].p.tenantId = 1
        /\ reqs[i].l.changes >= 8
        /\ reqs[j].kind = "sendMessage" /\ reqs[j].status = 200
        /\ reqs[j].l.tenant = 1 /\ reqs[j].l.id = <<"msg", 1>>
        /\ tenants = TenantRows(2, 2)
        /\ Cardinality({c \in channels : c.tenant_id = 1}) = 2

\* C8: when a reset of tenant T is answered, no audit_logs row with tenant_id = T written
\* before the reset remains.
C8_ResetClearsAuditLog ==
    [][\A i \in DOMAIN reqs :
          Answers(i, "reset", 200) =>
             \A k \in DOMAIN audit_logs' : audit_logs'[k].tenant_id # reqs[i].p.tenantId]_vars

\* C9: when a delete of tenant T is answered 200, the tenant row is gone and no row with
\* tenant_id = T is left in guilds, channels, auth_codes, access_tokens, messages,
\* message_edits, reactions, interaction_responses, followups or registered_commands; a
\* delete whose tenant lookup finds no tenant is answered 404, and a delete answered 404
\* changes no table row.
C9_DeleteRemovesTenantRows ==
    [][\A i \in DOMAIN reqs :
          /\ Answers(i, "deleteTenant", 200) =>
                LET tid == reqs[i].p.tenantId
                IN  /\ \A t \in tenants' : t.id # tid
                    /\ \A r \in guilds' \cup channels' : r.tenant_id # tid
                    /\ NoMutableRowsAfter(tid)
          /\ ( /\ At(i, "deleteTenant", "dt_resolve") /\ reqs'[i] # reqs[i]
               /\ resolveTenantById(reqs[i].p.tenantId) = {} )
             => Answers(i, "deleteTenant", 404)
          /\ Answers(i, "deleteTenant", 404) => UNCHANGED store]_vars

\* one delete removed a tenant that had rows in all eight mutable tables, and another
\* delete, of an unknown tenant id, was answered 404
C9_Witness ==
    \E i, j \in DOMAIN reqs :
        /\ reqs[i].kind = "deleteTenant" /\ reqs[i].status = 200 /\ reqs[i].p.tenantId = 1
        /\ reqs[i].l.changes >= 8
        /\ reqs[j].kind = "deleteTenant" /\ reqs[j].status = 404
        /\ tenants = {t \in TenantRows(5, 2) : t.id = 2}

\* C10: when a delete of tenant T is answered, no audit_logs row with tenant_id = T written
\* before the delete remains.
C10_DeleteRemovesAuditLog ==
    [][\A i \in DOMAIN reqs :
          Answers(i, "deleteTenant", 200) =>
             \A k \in DOMAIN audit_logs' : audit_logs'[k].tenant_id # reqs[i].p.tenantId]_vars

-----------------------------------------------------------------------------
(* Edits: two tenants have been created and each has sent one message to    *)
(* its channel c1; the first tenant's message has been edited e times (e in *)
(* 0..1).  Messages are edited and read, concurrently.                      *)

InitEdit ==
    /\ TwoTopologies
    /\ tenants = TenantRows(2, 2)
    /\ \E e \in 0..1 :
         /\ messages = <<[tenant_id |-> 1, id |-> <<"msg", 1>>, channel_id |-> "c1",
                          payload |-> IF e = 0 THEN "p1" ELSE "p2"],
                         [tenant_id |-> 2, id |-> <<"msg", 1>>, channel_id |-> "c1",
                          payload |-> "p1"]>>
         /\ message_edits = [k \in 1..e |->
                               [tenant_id |-> 1, message_id |-> <<"msg", 1>>, payload |-> "p1"]]
         /\ audit_logs = <<ControlAuditRow(1, "POST", "createTenant", 201),
                           ControlAuditRow(2, "POST", "createTenant", 201),
                           TenantAuditRow(3, 1, "POST", "sendMessage", 200),
                           TenantAuditRow(4, 2, "POST", "sendMessage", 200)>>
                         \o [k \in 1..e |-> TenantAuditRow(4 + k, 1, "PATCH", "editMessage", 200)]
         /\ audit_seq = 4 + e
    /\ issued = {[tenant_id |-> 1, id |-> <<"msg", 1>>], [tenant_id |-> 2, id |-> <<"msg", 1>>]}
    /\ handed = issued
    /\ uuid = 2
    /\ auth_codes = {} /\ access_tokens = {} /\ interaction_responses = {}
    /\ reactions = <<>> /\ followups = <<>> /\ registered_commands = <<>>
    /\ reqs = <<>>

NextEdit ==
    \/ BeginEditMessage(MaxEditRequests)
    \/ BeginGetMessages(MaxEditRequests)
    \/ \E i \in DOMAIN reqs : EditMessageResolve(i)
    \/ \E i \in DOMAIN reqs : EditMessageBatch(i)
    \/ \E i \in DOMAIN reqs : GetMessagesResolve(i)
    \/ \E i \in DOMAIN reqs : GetMessagesSelectMessages(i)
    \/ \E i \in DOMAIN reqs : GetMessagesSelectEdits(i)
    \/ \E i \in DOMAIN reqs : AuditLog(i)

SpecEdit == InitEdit /\ [][NextEdit]_vars

\* the payloads of the message_edits rows of message m of tenant tid, oldest first
HistoryOf(edits, tid, m) ==
    LET hit == SelectSeq2(edits, {k \in DOMAIN edits :
                                     edits[k].tenant_id = tid /\ edits[k].message_id = m})
    IN  [k \in DOMAIN hit |-> hit[k].payload]

\* the edits of message m of tenant tid in channel ch that were answered 200
SuccessfulEdits(tid, m, ch) ==
    {i \in DOMAIN reqs :
        /\ reqs[i].kind = "editMessage" /\ reqs[i].status = 200 /\ reqs[i].l.tenant = tid
        /\ reqs[i].p.messageId = m /\ reqs[i].p.channelId = ch}

\* the edits of tenant tid answered 200 before the first request of this behaviour: those
\* the audit log records, less the ones whose request is in reqs and has been audited
EditsBefore(tid) ==
    Cardinality({k \in DOMAIN audit_logs :
                    /\ audit_logs[k].url = "editMessage" /\ audit_logs[k].response_status = 200
                    /\ audit_logs[k].tenant_id = tid})
    - Cardinality({i \in DOMAIN reqs :
                      /\ reqs[i].kind = "editMessage" /\ reqs[i].status = 200
                      /\ reqs[i].pc = "done" /\ reqs[i].l.tenant = tid})

\* each stored message has one message_edits row per edit of it that was answered 200
EditCountMatches ==
    \A k \in DOMAIN messages :
        LET M == messages[k]
        IN  Len(HistoryOf(message_edits, M.tenant_id, M.id))
              = EditsBefore(M.tenant_id)
                + Cardinality(SuccessfulEdits(M.tenant_id, M.id, M.channel_id))

\* request i is an edit of message row M
EditOf(i, M) ==
    /\ reqs[i].kind = "editMessage" /\ reqs[i].l.tenant = M.tenant_id
    /\ reqs[i].p.messageId = M.id /\ reqs[i].p.channelId = M.channel_id

\* a step in which an edit of M is answered 200 appends M's payload of before the step to
\* M's history and makes the edit's body M's payload; any other step leaves both alone
EditRecordsPreImage ==
    \A k \in DOMAIN messages :
        LET M == messages[k]
            h == HistoryOf(message_edits, M.tenant_id, M.id)
            hAfter == HistoryOf(message_edits', M.tenant_id, M.id)
            done == {i \in DOMAIN reqs : Answers(i, "editMessage", 200) /\ EditOf(i, M)}
        IN  /\ k \in DOMAIN messages'
            /\ IF done = {}
               THEN hAfter = h /\ messages'[k] = M
               ELSE /\ hAfter = Append(h, M.payload)
                    /\ \A i \in done : messages'[k] = [M EXCEPT !.payload = reqs[i].p.json]

\* C11: for every message M and every interleaving of edits, the number of message_edits
\* rows of M equals the number of edits of M answered 200, the row an edit adds holds the
\* payload M had immediately before that edit, and M's payload is the body of the last
\* edit answered 200.
C11_EditHistoryMatchesEdits == []EditCountMatches /\ [][EditRecordsPreImage]_vars

\* two edits of one message answered 200: the history holds both pre-images in order
C11_Witness ==
    \E i, j \in DOMAIN reqs :
        /\ i # j
        /\ reqs[i].kind = "editMessage" /\ reqs[i].status = 200 /\ reqs[i].p.json = "p2"
        /\ reqs[j].kind = "editMessage" /\ reqs[j].status = 200 /\ reqs[j].p.json = "p1"
        /\ reqs[i].l.tenant = 1 /\ reqs[j].l.tenant = 1
        /\ HistoryOf(message_edits, 1, <<"msg", 1>>) = <<"p1", "p2">>
        /\ messages[1].payload = "p1"

\* the view a reader was given of one message is a state the message has been in: for
\* some k, its editHistory is the first k rows of the message's history and its payload is
\* what the message held after the k-th edit
ViewIsSnapshot(v, tid) ==
    LET h == HistoryOf(message_edits, tid, v.id)
        n == Len(h)
        now == {messages[k].payload : k \in {j \in DOMAIN messages :
                    messages[j].tenant_id = tid /\ messages[j].id = v.id}}
    IN  \E k \in 0..n :
           /\ v.editHistory = SubSeq(h, 1, k)
           /\ IF k < n THEN v.payload = h[k + 1] ELSE v.payload \in now

\* C12: a GET /_test/:tenantId/messages/:channelId running concurrently with edits never
\* returns, for a message M, the pre-image of an edit in M's editHistory together with the
\* payload of before that edit, nor the new payload without the pre-image.
C12_ReaderSeesEditAtomically ==
    \A i \in DOMAIN reqs :
        (reqs[i].kind = "getMessages" /\ reqs[i].status = 200) =>
            \A k \in DOMAIN reqs[i].l.view : ViewIsSnapshot(reqs[i].l.view[k], reqs[i].l.tenant)

-----------------------------------------------------------------------------
(* Interaction responses: two tenants have been created; for token tokA the *)
(* first has stored a response (resp-1) and a followup (followup-2).        *)
(* Responses are edited and followups sent, concurrently.                   *)

InitInteraction ==
    /\ TwoTopologies
    /\ tenants = TenantRows(3, 1)
    /\ interaction_responses = {[tenant_id |-> 1, interaction_token |-> "tokA",
                                 response_id |-> <<"resp", 1>>, payload |-> "p1"]}
    /\ followups = <<[tenant_id |-> 1, id |-> <<"followup", 2>>, interaction_token |-> "tokA",
                      payload |-> "p1"]>>
    /\ issued = {[tenant_id |-> 1, id |-> <<"resp", 1>>], [tenant_id |-> 1, id |-> <<"followup", 2>>]}
    /\ handed = issued
    /\ audit_logs = <<ControlAuditRow(1, "POST", "createTenant", 201),
                      ControlAuditRow(2, "POST", "createTenant", 201),
                      TenantAuditRow(3, 1, "PATCH", "interactionResponse", 200),
                      TenantAuditRow(4, 1, "POST", "sendFollowup", 200)>>
    /\ audit_seq = 4
    /\ uuid = 2
    /\ auth_codes = {} /\ access_tokens = {}
    /\ messages = <<>> /\ message_edits = <<>> /\ reactions = <<>> /\ registered_commands = <<>>
    /\ reqs = <<>>

NextInteraction ==
    \/ BeginInteractionResponse(MaxInteractionRequests)
    \/ BeginSendFollowup(MaxInteractionRequests)
    \/ \E i \in DOMAIN reqs : InteractionResponseResolve(i)
    \/ \E i \in DOMAIN reqs : InteractionResponseGenerateId(i)
    \/ \E i \in DOMAIN reqs : InteractionResponseUpsert(i)
    \/ \E i \in DOMAIN reqs : SendFollowupResolve(i)
    \/ \E i \in DOMAIN reqs : SendFollowupGenerateId(i)
    \/ \E i \in DOMAIN reqs : SendFollowupInsert(i)
    \/ \E i \in DOMAIN reqs : AuditLog(i)

SpecInteraction == InitInteraction /\ [][NextInteraction]_vars

\* at most one interaction_responses row per (tenant, interaction token)
OneResponsePerToken ==
    \A r1, r2 \in interaction_responses :
        (r1.tenant_id = r2.tenant_id /\ r1.interaction_token = r2.interaction_token) => r1 = r2

\* the rows of (tenant tid, token tok) in a set of interaction_responses rows
ResponsesOf(rows, tid, tok) == {r \in rows : r.tenant_id = tid /\ r.interaction_token = tok}

\* the step in which a PATCH commits leaves, for its (tenant, token), the one row that
\* holds the PATCH's body and the id the PATCH returns, and changes no other row and no
\* followup; no other step changes interaction_responses
LastPatchWins ==
    /\ \A i \in DOMAIN reqs :
          Answers(i, "interactionResponse", 200) =>
             LET tid == reqs[i].l.tenant
                 tok == reqs[i].p.interactionToken
             IN  /\ ResponsesOf(interaction_responses', tid, tok)
                       = {[tenant_id |-> tid, interaction_token |-> tok,
                           response_id |-> reqs[i].l.id, payload |-> reqs[i].p.json]}
                 /\ reqs'[i].l.id = reqs[i].l.id
                 /\ interaction_responses' \ ResponsesOf(interaction_responses', tid, tok)
                       = interaction_responses \ ResponsesOf(interaction_responses, tid, tok)
                 /\ followups' = followups
    /\ (\A i \in DOMAIN reqs : ~Answers(i, "interactionResponse", 200))
          => interaction_responses' = interaction_responses

\* C13: in every reachable state there is at most one interaction_responses row per
\* (tenant, interactionToken); after any sequence of PATCH .../messages/@original requests
\* for a token the row's payload is the body of the PATCH committed last and its
\* response_id the id that PATCH returned; followups of the token are unaffected.
C13_OneResponseLastPatchWins == []OneResponsePerToken /\ [][LastPatchWins]_vars

\* two PATCHes of tokA, the one with the smaller id committed last: its body and id stand,
\* and the earlier followup of tokA is still there
C13_Witness ==
    \E i, j \in DOMAIN reqs :
        /\ i # j
        /\ reqs[i].kind = "interactionResponse" /\ reqs[i].status = 200
        /\ reqs[j].kind = "interactionResponse" /\ reqs[j].status = 200
        /\ reqs[i].p.interactionToken = "tokA" /\ reqs[j].p.interactionToken = "tokA"
        /\ reqs[i].l.tenant = 1 /\ reqs[j].l.tenant = 1
        /\ reqs[i].l.id = <<"resp", 3>> /\ reqs[j].l.id = <<"resp", 4>>
        /\ reqs[i].p.json = "p2" /\ reqs[j].p.json = "p1"
        /\ interaction_responses = {[tenant_id |-> 1, interaction_token |-> "tokA",
                                     response_id |-> <<"resp", 3>>, payload |-> "p2"]}
        /\ Len(followups) = 1

-----------------------------------------------------------------------------
(* Command registration: two tenants have been created; the first has       *)
(* registered one command in guild g1 (cmd-1) and one in guild g2 (cmd-2).  *)
(* Commands are overwritten in bulk and read, concurrently.                 *)

InitialCommands ==
    <<[tenant_id |-> 1, id |-> <<"cmd", 1>>, guild_id |-> "g1", payload |-> "p2"],
      [tenant_id |-> 1, id |-> <<"cmd", 2>>, guild_id |-> "g2", payload |-> "p1"]>>

InitCommands ==
    /\ TwoTopologies
    /\ tenants = TenantRows(3, 1)
    /\ registered_commands = InitialCommands
    /\ issued = {[tenant_id |-> 1, id |-> <<"cmd", 1>>], [tenant_id |-> 1, id |-> <<"cmd", 2>>]}
    /\ handed = issued
    /\ audit_logs = <<ControlAuditRow(1, "POST", "createTenant", 201),
                      ControlAuditRow(2, "POST", "createTenant", 201),
                      TenantAuditRow(3, 1, "PUT", "bulkOverwrite", 200),
                      TenantAuditRow(4, 1, "PUT", "bulkOverwrite", 200)>>
    /\ audit_seq = 4
    /\ uuid = 2
    /\ auth_codes = {} /\ access_tokens = {} /\ interaction_responses = {}
    /\ messages = <<>> /\ message_edits = <<>> /\ reactions = <<>> /\ followups = <<>>
    /\ reqs = <<>>

NextCommands ==
    \/ BeginBulkOverwrite(MaxCommandRequests)
    \/ BeginGetCommands(MaxCommandRequests)
    \/ \E i \in DOMAIN reqs : BulkOverwriteResolve(i)
    \/ \E i \in DOMAIN reqs : BulkOverwriteGuild(i)
    \/ \E i \in DOMAIN reqs : BulkOverwriteGenerateId(i)
    \/ \E i \in DOMAIN reqs : BulkOverwriteBatch(i)
    \/ \E i \in DOMAIN reqs : GetCommandsResolve(i)
    \/ \E i \in DOMAIN reqs : GetCommandsSelect(i)
    \/ \E i \in DOMAIN reqs : AuditLog(i)

SpecCommands == InitCommands /\ [][NextCommands]_vars

\* the command set of overwrite request i, as a getter reports it
CommandSetOf(i) ==
    [k \in DOMAIN reqs[i].l.ids |-> [id |-> reqs[i].l.ids[k], payload |-> reqs[i].p.commands[k]]]

\* C14: the step in which a bulk overwrite of (tenant, guild) with a body of n commands is
\* answered 200 leaves, for that (tenant, guild), exactly n rows whose payloads are the
\* body's commands in order, none of the rows registered before, and every row of any
\* other guild or tenant as it was.
C14_BulkOverwriteReplaces ==
    [][\A i \in DOMAIN reqs :
          Answers(i, "bulkOverwrite", 200) =>
             LET tid == reqs[i].l.tenant
                 g == reqs[i].p.guildId
                 after == CommandsOf(registered_commands', tid, g)
             IN  /\ Len(after) = Len(reqs[i].p.commands)
                 /\ [k \in DOMAIN after |-> after[k].payload] = reqs[i].p.commands
                 /\ after = CommandSetOf(i)
                 /\ \A k \in DOMAIN after :
                       \A b \in DOMAIN registered_commands :
                          registered_commands[b].tenant_id = tid
                             => registered_commands[b].id # after[k].id
                 /\ \A t \in {1, 2}, h \in {"g1", "g2"} :
                       (t # tid \/ h # g) => CommandsOf(registered_commands', t, h)
                                               = CommandsOf(registered_commands, t, h)]_vars

\* an overwrite with two commands replaced the command of g1, and the command of g2 stands
C14_Witness ==
    \E i \in DOMAIN reqs :
        /\ reqs[i].kind = "bulkOverwrite" /\ reqs[i].status = 200
        /\ reqs[i].p.guildId = "g1" /\ reqs[i].p.commands = <<"p1", "p2">>
        /\ CommandsOf(registered_commands, 1, "g1")
              = <<[id |-> <<"cmd", 3>>, payload |-> "p1"], [id |-> <<"cmd", 4>>, payload |-> "p2"]>>
        /\ CommandsOf(registered_commands, 1, "g2") = <<[id |-> <<"cmd", 2>>, payload |-> "p1"]>>

\* C15: what a GET /_test/:tenantId/commands/:guildId returns, however it interleaves with
\* bulk overwrites of that guild, is the guild's initial command set or the whole command
\* set of one overwrite: never the empty set between delete and insert, a subset, or a mix.
C15_ReaderSeesWholeOverwrite ==
    \A i \in DOMAIN reqs :
        (reqs[i].kind = "getCommands" /\ reqs[i].status = 200) =>
            \/ reqs[i].l.commands = CommandsOf(InitialCommands, reqs[i].p.tenantId, reqs[i].p.guildId)
            \/ \E j \in DOMAIN reqs :
                  /\ reqs[j].kind = "bulkOverwrite" /\ reqs[j].status = 200
                  /\ reqs[j].l.tenant = reqs[i].p.tenantId /\ reqs[j].p.guildId = reqs[i].p.guildId
                  /\ reqs[i].l.commands = CommandSetOf(j)

\* a reader ran after an overwrite of two commands had generated its ids and before a
\* later overwrite replaced them: it was given the two commands
C15_Witness ==
    \E i, j \in DOMAIN reqs :
        /\ reqs[i].kind = "getCommands" /\ reqs[i].status = 200
        /\ reqs[j].kind = "bulkOverwrite" /\ reqs[j].status = 200
        /\ Len(reqs[i].l.commands) = 2
        /\ reqs[i].l.commands = CommandSetOf(j)

-----------------------------------------------------------------------------
(* Audit logging: two tenants have been created and the first has sent one  *)
(* message. Messages are sent and the audit log is read, concurrently; the  *)
(* insert of an audit row may fail.                                         *)

InitialAuditRows ==
    <<ControlAuditRow(1, "POST", "createTenant", 201),
      ControlAuditRow(2, "POST", "createTenant", 201),
      TenantAuditRow(3, 1, "POST", "sendMessage", 200)>>

InitAudit ==
    /\ TwoTopologies
    /\ tenants = TenantRows(2, 1)
    /\ messages = <<[tenant_id |-> 1, id |-> <<"msg", 1>>, channel_id |-> "c1", payload |-> "p1"]>>
    /\ issued = {[tenant_id |-> 1, id |-> <<"msg", 1>>]}
    /\ handed = issued
    /\ audit_logs = InitialAuditRows
    /\ audit_seq = 3
    /\ uuid = 2
    /\ auth_codes = {} /\ access_tokens = {} /\ interaction_responses = {}
    /\ message_edits = <<>> /\ reactions = <<>> /\ followups = <<>> /\ registered_commands = <<>>
    /\ reqs = <<>>

NextAudit ==
    \/ BeginSendMessage(MaxAuditRequests)
    \/ BeginGetAuditLogs(MaxAuditRequests)
    \/ BeginBrowseAuditLogs(MaxAuditRequests)
    \/ \E i \in DOMAIN reqs : SendMessageResolve(i)
    \/ \E i \in DOMAIN reqs : SendMessageChannel(i)
    \/ \E i \in DOMAIN reqs : SendMessageGenerateId(i)
    \/ \E i \in DOMAIN reqs : SendMessageInsert(i)
    \/ \E i \in DOMAIN reqs : GetAuditLogsResolve(i)
    \/ \E i \in DOMAIN reqs : GetAuditLogsSelect(i)
    \/ \E i \in DOMAIN reqs : BrowseAuditLogsSelect(i)
    \/ \E i \in DOMAIN reqs : AuditLog(i)
    \/ \E i \in DOMAIN reqs : AuditLogFails(i)

SpecAudit == InitAudit /\ [][NextAudit]_vars

\* request i is received or takes a step
Moves(i) == i \in DOMAIN reqs' /\ (i \in DOMAIN reqs => reqs'[i] # reqs[i])

AuditLogPaths == {"getAuditLogs", "browseAuditLogs"}

NoAuditLogRowOfBrowser == \A k \in DOMAIN audit_logs : audit_logs[k].url \notin AuditLogPaths

BrowserLeavesAuditLogs ==
    \A i \in DOMAIN reqs' : (Moves(i) /\ reqs'[i].kind \in AuditLogPaths) => audit_logs' = audit_logs

\* while nothing but log reads has been requested, every total reported is that of the
\* rows present before the first read
TotalsUnchanged ==
    (\A j \in DOMAIN reqs : reqs[j].kind \in AuditLogPaths) =>
        \A i \in DOMAIN reqs :
            reqs[i].status = 200 =>
                reqs[i].l.total = IF reqs[i].kind = "browseAuditLogs" THEN Len(InitialAuditRows)
                                  ELSE TotalOf(InitialAuditRows, reqs[i].l.tenant)

\* C16: no audit_logs row is ever written for a request whose path ends in /audit-logs
\* (per-tenant or global browse): every step of such a request leaves audit_logs as it is,
\* no row of the table names such a path, and any number of such GETs report the same total.
C16_AuditLogReadsNotAudited ==
    [](NoAuditLogRowOfBrowser /\ TotalsUnchanged) /\ [][BrowserLeavesAuditLogs]_vars

\* two reads of the log of tenant 1 were answered, both with the total 1, and a read of
\* the global log is among the requests that left the table as it was
C16_Witness ==
    /\ Len(reqs) = 2
    /\ \A i \in DOMAIN reqs :
          /\ reqs[i].kind = "getAuditLogs" /\ reqs[i].pc = "done" /\ reqs[i].status = 200
          /\ reqs[i].l.total = 1
    /\ audit_logs = InitialAuditRows

\* request i leaves the middleware in this step
Leaves(i) == i \in DOMAIN reqs /\ reqs[i].pc = "audit" /\ reqs'[i].pc = "done"

\* C18: whether the audit row is written or the write fails, the step in which the
\* response leaves the middleware changes neither the response status, nor its body, nor
\* any table other than audit_logs.
C18_AuditFailureIsolated ==
    [][\A i \in DOMAIN reqs :
          Leaves(i) => /\ reqs'[i].status = reqs[i].status
                       /\ reqs'[i].body = reqs[i].body
                       /\ UNCHANGED store]_vars

\* a message was sent and answered 200, its row is stored, and the audit write failed:
\* no audit row was added
C18_Witness ==
    \E i \in DOMAIN reqs :
        /\ reqs[i].kind = "sendMessage" /\ reqs[i].pc = "done" /\ reqs[i].status = 200
        /\ \E k \in DOMAIN messages : messages[k].id = reqs[i].l.id
        /\ audit_logs = InitialAuditRows
        /\ Len(reqs) = 1

-----------------------------------------------------------------------------
(* The audit row's tenant and rows left behind by a deletion, checked over  *)
(* reset, delete and send message running concurrently (SpecReset).         *)

\* C17: the step in which a request whose path does not end in /audit-logs leaves the
\* middleware appends exactly one audit_logs row, carrying the request's method, URL and
\* response status, whose tenant_id is the tenant the handler resolved (none, written 0,
\* when authentication or tenant resolution failed).
C17_AuditRowNamesResolvedTenant ==
    [][\A i \in DOMAIN reqs :
          (Leaves(i) /\ reqs[i].kind \notin AuditLogPaths) =>
              /\ Len(audit_logs') = Len(audit_logs) + 1
              /\ LET row == audit_logs'[Len(audit_logs')]
                 IN  /\ row.method = Method(reqs[i].kind)
                     /\ row.url = reqs[i].kind
                     /\ row.response_status = reqs[i].status
                     /\ row.tenant_id = reqs[i].l.tenant]_vars

\* the rows of the tables owned by tenants
ChildRows ==
    guilds \cup channels \cup auth_codes \cup access_tokens \cup interaction_responses
    \cup SeqToSet(messages) \cup SeqToSet(message_edits) \cup SeqToSet(reactions)
    \cup SeqToSet(followups) \cup SeqToSet(registered_commands)

\* C20: once every request has completed, no row of a child table (audit_logs left
\* aside) names a tenant that no longer exists, whatever the interleaving of
\* DELETE /_test/tenants/:tenantId with the requests in flight for that tenant.
C20_NoOrphanRowsAfterDelete ==
    (\A i \in DOMAIN reqs : reqs[i].pc = "done") =>
        \A r \in ChildRows : \E t \in tenants : t.id = r.tenant_id

-----------------------------------------------------------------------------
(* cron("cleanup-old-tenants", "0 * * * *") (index.ts). Time is counted in   *)
(* hours; created_at and the cutoff are ISO-8601 UTC strings of one fixed    *)
(* format, which compare as the instants they denote. A run is a task in    *)
(* reqs that no middleware wraps: p.now is its reading of Date.now().        *)

\* 24 * 60 * 60 * 1000 ms
Retention == 24

\* the comparison with <= in place of <
Stale_Inclusive(t, now) == t.created_at <= now - Retention

\* SELECT id FROM tenants WHERE created_at < cutoff, cutoff = now - 24 h
Stale(t, now) == t.created_at < now - Retention

\* clock readings of the runs
SweepTimes == {30, 31}

\* the runs are started by the hourly schedule (or by hand), one at a time; the clock
\* does not go back between runs
BeginSweep(max) ==
    /\ Len(reqs) < max
    /\ \A j \in DOMAIN reqs : reqs[j].kind = "sweep" => reqs[j].pc = "done"
    /\ \E now \in SweepTimes :
         /\ \A j \in DOMAIN reqs : reqs[j].kind = "sweep" => reqs[j].p.now <= now
         /\ Receive(NewRequest("sweep", [now |-> now], "sw_select"))
    /\ UNCHANGED <<store, audit_logs, audit_seq, uuid, issued, handed>>

\* the sequences that list the elements of S once each
Orderings(S) ==
    {q \in [1..Cardinality(S) -> S] : \A a, b \in 1..Cardinality(S) : q[a] = q[b] => a = b}

\* the SELECT (in an order the statement does not fix); with no row the loop is skipped
\* and the run returns { deleted: 0, checked: true }
SweepSelect(i) ==
    /\ At(i, "sweep", "sw_select")
    /\ \E results \in Orderings({t.id : t \in {u \in tenants : Stale(u, reqs[i].p.now)}}) :
         Set(i, [reqs[i] EXCEPT !.pc = IF results = <<>> THEN "done" ELSE "sw_delete",
                                !.l = [tenant |-> 0, results |-> results, row |-> 1,
                                       deleted |-> IF results = <<>> THEN 0 ELSE -1]])
    /\ UNCHANGED <<store, audit_logs, audit_seq, uuid, issued, handed>>

\* deleteTenantData(tenantId) of helpers.ts, "the same cascade used by delete-tenant":
\* every child table, the audit rows of the tenant, and the tenant row, in one batch
deleteTenantData(tid) ==
    /\ ClearMutableTables(tid)
    /\ channels' = DeleteRowsOfTenant(channels, tid)
    /\ guilds' = DeleteRowsOfTenant(guilds, tid)
    /\ audit_logs' = DeleteWhereTenant(audit_logs, tid)
    /\ tenants' = {t \in tenants : t.id # tid}

\* one turn of `for (const row of results) await deleteTenantData(row.id)`; after the
\* last one the run returns { deleted: results.length, checked: true }
SweepDelete(i) ==
    /\ At(i, "sweep", "sw_delete")
    /\ LET l == reqs[i].l
           last == l.row = Len(l.results)
       IN  /\ deleteTenantData(l.results[l.row])
           /\ Set(i, [reqs[i] EXCEPT !.pc = IF last THEN "done" ELSE "sw_delete",
                                     !.l.row = l.row + 1,
                                     !.l.deleted = IF last THEN Len(l.results) ELSE -1])
    /\ UNCHANGED <<audit_seq, uuid, issued, handed>>

\* two tenants of various ages; the first has sent a message
InitSweep ==
    /\ TwoTopologies
    /\ \E c1 \in {0, 6}, c2 \in {0, 7, 10} :
         tenants = {[t EXCEPT !.created_at = IF t.id = 1 THEN c1 ELSE c2] :
                       t \in {[id |-> u.id, bot_token |-> u.bot_token, client_id |-> u.client_id,
                               client_secret |-> u.client_secret, next_id |-> u.next_id,
                               created_at |-> 0] : u \in TenantRows(2, 1)}}
    /\ messages = <<[tenant_id |-> 1, id |-> <<"msg", 1>>, channel_id |-> "c1", payload |-> "p1"]>>
    /\ issued = {[tenant_id |-> 1, id |-> <<"msg", 1>>]}
    /\ handed = issued
    /\ audit_logs = InitialAuditRows
    /\ audit_seq = 3
    /\ uuid = 2
    /\ auth_codes = {} /\ access_tokens = {} /\ interaction_responses = {}
    /\ message_edits = <<>> /\ reactions = <<>> /\ followups = <<>> /\ registered_commands = <<>>
    /\ reqs = <<>>

NextSweep ==
    \/ BeginSweep(MaxSweepRequests)
    \/ BeginSendMessage(MaxSweepRequests)
    \/ \E i \in DOMAIN reqs : SweepSelect(i)
    \/ \E i \in DOMAIN reqs : SweepDelete(i)
    \/ \E i \in DOMAIN reqs : SendMessageResolve(i)
    \/ \E i \in DOMAIN reqs : SendMessageChannel(i)
    \/ \E i \in DOMAIN reqs : SendMessageGenerateId(i)
    \/ \E i \in DOMAIN reqs : SendMessageInsert(i)
    \/ \E i \in DOMAIN reqs : AuditLog(i)

SpecSweep == InitSweep /\ [][NextSweep]_vars

\* no row of tenant tid is left, after the step, in any table
NoRowsAfter(tid) ==
    /\ NoMutableRowsAfter(tid)
    /\ \A r \in guilds' \cup channels' \cup tenants' \cup SeqToSet(audit_logs') :
          IF "tenant_id" \in DOMAIN r THEN r.tenant_id # tid ELSE r.id # tid

\* run i ends in this step
Ends(i) == reqs[i].kind = "sweep" /\ reqs[i].pc # "done" /\ reqs'[i].pc = "done"

\* the tenants whose row the step deletes
Removed == {t \in tenants : \A u \in tenants' : u.id # t.id}

\* a tenant row disappears only in a step of a run for which it is older than 24 hours,
\* and it disappears with all of its rows
RemovesOnlyOld ==
    \A t \in Removed :
        \E i \in DOMAIN reqs :
            /\ reqs[i].kind = "sweep" /\ Moves(i)
            /\ t.created_at + Retention < reqs[i].p.now
            /\ Removed = {t}
            /\ NoRowsAfter(t.id)

\* the run that ends leaves no tenant older than 24 hours and reports the number of
\* tenants that were there when it read the clock and are gone now
ReportsRemoved ==
    \A i \in DOMAIN reqs :
        Ends(i) =>
            /\ \A t \in tenants' : ~(t.created_at + Retention < reqs[i].p.now)
            /\ reqs'[i].l.deleted = Len(reqs'[i].l.results)
            /\ \A k \in DOMAIN reqs'[i].l.results : \A t \in tenants' : t.id # reqs'[i].l.results[k]

\* a run that reads the same clock value as a run before it finds nothing to remove
RepeatIsNoOp ==
    \A i, j \in DOMAIN reqs :
        ( /\ i < j /\ reqs[i].kind = "sweep" /\ reqs[j].kind = "sweep"
          /\ reqs[i].p.now = reqs[j].p.now /\ reqs[j].pc = "done" )
        => reqs[j].l.results = <<>> /\ reqs[j].l.deleted = 0

\* C19: a run of cleanup-old-tenants removes every tenant created more than 24 hours
\* before the run, each with all of its child rows, removes no younger tenant, and
\* reports deleted = the number of tenants it removed; a run repeated at once removes
\* nothing and reports deleted = 0.
C19_SweepRemovesOldTenants ==
    []RepeatIsNoOp /\ [][RemovesOnlyOld /\ ReportsRemoved]_vars

\* a run at hour 30 removed tenant 1 (created at hour 0) with its rows and reported 1,
\* kept tenant 2 (created at hour 7), and the run repeated at hour 30 reported 0
C19_Witness ==
    /\ Len(reqs) = 2
    /\ \A i \in DOMAIN reqs : reqs[i].kind = "sweep" /\ reqs[i].pc = "done" /\ reqs[i].p.now = 30
    /\ reqs[1].l.deleted = 1 /\ reqs[2].l.deleted = 0
    /\ {t.id : t \in tenants} = {2}
    /\ messages = <<>>

-----------------------------------------------------------------------------
(* The clientId cross-check of the bulk overwrite (SpecCommands).           *)

\* request i carries a bot token that resolves to a tenant whose client_id is not the
\* :clientId of the path
Mismatched(i) ==
    /\ reqs[i].kind = "bulkOverwrite"
    /\ \E t \in resolveTenantByBotToken(reqs[i].p.auth) : t.client_id # reqs[i].p.clientId

MismatchAnswered400 ==
    \A i \in DOMAIN reqs :
        (Mismatched(i) /\ reqs[i].status # 0)
            => reqs[i].status = 400 /\ reqs[i].body = "client_id mismatch"

MismatchChangesNothing ==
    \A i \in DOMAIN reqs' :
        (Moves(i) /\ reqs'[i].kind = "bulkOverwrite"
           /\ \E t \in resolveTenantByBotToken(reqs'[i].p.auth) : t.client_id # reqs'[i].p.clientId)
        => registered_commands' = registered_commands /\ tenants' = tenants

\* C21: a bulk overwrite with a valid bot token and a :clientId other than the resolved
\* tenant's client_id is answered 400 "client_id mismatch", never 404 or anything else,
\* whether the guild exists or not and whether the clientId is another tenant's or
\* nobody's, and none of its steps changes registered_commands or any next_id.
C21_ClientIdMismatchIs400 ==
    []MismatchAnswered400 /\ [][MismatchChangesNothing]_vars

\* tenant 1's token with tenant 2's client id and an unknown guild, and with nobody's
\* client id and an existing guild: both answered 400, the commands as they were
C21_Witness ==
    /\ \E i \in DOMAIN reqs :
          /\ reqs[i].kind = "bulkOverwrite" /\ reqs[i].p.auth = "bot1" /\ reqs[i].status = 400
          /\ reqs[i].p.clientId = "cid2" /\ reqs[i].p.guildId = "gX"
    /\ \E i \in DOMAIN reqs :
          /\ reqs[i].kind = "bulkOverwrite" /\ reqs[i].p.auth = "bot1" /\ reqs[i].status = 400
          /\ reqs[i].p.clientId = "cidX" /\ reqs[i].p.guildId = "g1"
    /\ registered_commands = InitialCommands

-----------------------------------------------------------------------------
(* Access tokens: two tenants, each with a pending auth code; the first     *)
(* holds an access token from an earlier exchange. Codes are exchanged,     *)
(* the user is read, and tenants are reset and deleted, concurrently.       *)

InitialToken == <<1, 5>>

InitTokens ==
    /\ TwoTopologies
    /\ tenants = TenantRows(1, 1)
    /\ auth_codes = {[code |-> 3, tenant_id |-> 1, guild_id |-> "g1", redirect_uri |-> "r1"],
                     [code |-> 4, tenant_id |-> 2, guild_id |-> "g1", redirect_uri |-> ""]}
    /\ access_tokens = {[token |-> InitialToken, tenant_id |-> 1]}
    /\ uuid = 6
    /\ audit_logs = <<ControlAuditRow(1, "POST", "createTenant", 201),
                      ControlAuditRow(2, "POST", "createTenant", 201),
                      ControlAuditRow(3, "POST", "authCode", 200),
                      ControlAuditRow(4, "POST", "authCode", 200),
                      TenantAuditRow(5, 1, "POST", "exchange", 200),
                      ControlAuditRow(6, "POST", "authCode", 200)>>
    /\ audit_seq = 6
    /\ interaction_responses = {}
    /\ messages = <<>> /\ message_edits = <<>> /\ reactions = <<>>
    /\ followups = <<>> /\ registered_commands = <<>>
    /\ reqs = <<>> /\ issued = {} /\ handed = {}

NextTokens ==
    \/ BeginTokenExchange(MaxTokenRequests)
    \/ BeginGetUser(MaxTokenRequests)
    \/ BeginReset(MaxTokenRequests)
    \/ BeginDeleteTenant(MaxTokenRequests)
    \/ \E i \in DOMAIN reqs : TokenExchangeResolve(i)
    \/ \E i \in DOMAIN reqs : TokenExchangeSelect(i)
    \/ \E i \in DOMAIN reqs : TokenExchangeDelete(i)
    \/ \E i \in DOMAIN reqs : TokenExchangeInsert(i)
    \/ \E i \in DOMAIN reqs : TokenExchangeGuild(i)
    \/ \E i \in DOMAIN reqs : GetUserResolve(i)
    \/ \E i \in DOMAIN reqs : ResetResolve(i)
    \/ \E i \in DOMAIN reqs : ResetBatch(i)
    \/ \E i \in DOMAIN reqs : DeleteTenantResolve(i)
    \/ \E i \in DOMAIN reqs : DeleteTenantBatch(i)
    \/ \E i \in DOMAIN reqs : AuditLog(i)

SpecTokens == InitTokens /\ [][NextTokens]_vars

\* the tenant for which token tok was issued: the one whose client credentials and auth
\* code the issuing exchange presented (tenant 1 for the token of the earlier exchange)
IssuedFor(tok) ==
    IF tok = InitialToken THEN {1}
    ELSE {reqs[j].l.tenant : j \in {k \in DOMAIN reqs :
              /\ IsExchange(k) /\ IssuedToken(k) /\ reqs[k].l.accessToken = tok
              /\ reqs[k].l.authCode.tenant_id = reqs[k].l.tenant
              /\ reqs[k].l.authCode.code = reqs[k].p.code
              /\ SecretOf(reqs[k].p.client_id) = reqs[k].p.client_secret
              /\ \A t \in TenantRows(1, 1) :
                    t.id = reqs[k].l.tenant => t.client_id = reqs[k].p.client_id}}

\* a reset or a deletion of tenant tid has been answered 200
Cleared(tid) ==
    \E j \in DOMAIN reqs :
        reqs[j].kind \in {"reset", "deleteTenant"} /\ reqs[j].status = 200 /\ reqs[j].l.tenant = tid

UserIsTokenOwner ==
    \A i \in DOMAIN reqs :
        (reqs[i].kind = "getUser" /\ reqs[i].status = 200)
            => IssuedFor(reqs[i].p.bearer) = {reqs[i].l.user}

\* the answer to a read of the user: 401 for a token never issued and for the earlier
\* token once its tenant has been reset or deleted, 200 for a token whose row is stored
\* and whose tenant exists
UserAnswer ==
    \A i \in DOMAIN reqs :
        (reqs[i].kind = "getUser" /\ reqs[i].status = 0 /\ reqs'[i].status # 0) =>
            /\ reqs'[i].status \in {200, 401}
            /\ IssuedFor(reqs[i].p.bearer) = {} => reqs'[i].status = 401
            /\ (reqs[i].p.bearer = InitialToken /\ Cleared(1)) => reqs'[i].status = 401
            /\ (\E a \in access_tokens : /\ a.token = reqs[i].p.bearer
                                         /\ \E t \in tenants : t.id = a.tenant_id)
                  => reqs'[i].status = 200
            /\ reqs'[i].status = 401 => reqs'[i].body = "401: Unauthorized"

\* C22: an access token issued by a successful exchange resolves at GET /users/@me to
\* exactly the tenant whose client credentials and auth code were used, never to another
\* tenant; a token that was never issued, or that a reset or a deletion of its tenant
\* cleared, is answered 401.
C22_TokenResolvesToItsTenant ==
    []UserIsTokenOwner /\ [][UserAnswer]_vars

\* the code of tenant 2 was exchanged and the new token read back as user 2
C22_Witness ==
    \E i, j \in DOMAIN reqs :
        /\ IsExchange(j) /\ reqs[j].status = 200 /\ reqs[j].l.tenant = 2
        /\ reqs[i].kind = "getUser" /\ reqs[i].status = 200
        /\ reqs[i].p.bearer = reqs[j].l.accessToken /\ reqs[i].l.user = 2

\* the earlier token of tenant 1 was presented after a reset of tenant 1: 401
C22_WitnessCleared ==
    \E i, j \in DOMAIN reqs :
        /\ reqs[j].kind = "reset" /\ reqs[j].status = 200 /\ reqs[j].l.tenant = 1
        /\ reqs[i].kind = "getUser" /\ reqs[i].status = 401 /\ reqs[i].p.bearer = InitialToken

-----------------------------------------------------------------------------
(* Isolation: two tenants whose guild, channel, message, interaction-token   *)
(* and command ids are the same, with different payloads. Messages are sent *)
(* and edited, interaction responses patched, commands overwritten, tenants *)
(* reset and deleted, and messages and commands read.                       *)

InitIsolation ==
    /\ TwoTopologies
    /\ tenants = TenantRows(4, 4)
    /\ messages = <<[tenant_id |-> 1, id |-> <<"msg", 1>>, channel_id |-> "c1", payload |-> "p1"],
                    [tenant_id |-> 2, id |-> <<"msg", 1>>, channel_id |-> "c1", payload |-> "p2"]>>
    /\ interaction_responses =
          {[tenant_id |-> 1, interaction_token |-> "tokA", response_id |-> <<"resp", 2>>,
            payload |-> "p1"],
           [tenant_id |-> 2, interaction_token |-> "tokA", response_id |-> <<"resp", 2>>,
            payload |-> "p2"]}
    /\ registered_commands =
          <<[tenant_id |-> 1, id |-> <<"cmd", 3>>, guild_id |-> "g1", payload |-> "p1"],
            [tenant_id |-> 2, id |-> <<"cmd", 3>>, guild_id |-> "g1", payload |-> "p2"]>>
    /\ issued = {[tenant_id |-> t, id |-> n] :
                    t \in {1, 2}, n \in {<<"msg", 1>>, <<"resp", 2>>, <<"cmd", 3>>}}
    /\ handed = issued
    /\ audit_logs = <<ControlAuditRow(1, "POST", "createTenant", 201),
                      ControlAuditRow(2, "POST", "createTenant", 201)>>
                    \o [k \in 1..6 |->
                          TenantAuditRow(2 + k, IF k <= 3 THEN 1 ELSE 2,
                                         CASE k \in {1, 4} -> "POST" [] k \in {2, 5} -> "PATCH"
                                           [] OTHER -> "PUT",
                                         CASE k \in {1, 4} -> "sendMessage"
                                           [] k \in {2, 5} -> "interactionResponse"
                                           [] OTHER -> "bulkOverwrite",
                                         200)]
    /\ audit_seq = 8
    /\ uuid = 2
    /\ auth_codes = {} /\ access_tokens = {}
    /\ message_edits = <<>> /\ reactions = <<>> /\ followups = <<>>
    /\ reqs = <<>>

NextIsolation ==
    \/ BeginSendMessage(MaxIsolationRequests)
    \/ BeginEditMessage(MaxIsolationRequests)
    \/ BeginGetMessages(MaxIsolationRequests)
    \/ BeginInteractionResponse(MaxIsolationRequests)
    \/ BeginBulkOverwrite(MaxIsolationRequests)
    \/ BeginGetCommands(MaxIsolationRequests)
    \/ BeginReset(MaxIsolationRequests)
    \/ BeginDeleteTenant(MaxIsolationRequests)
    \/ \E i \in DOMAIN reqs : SendMessageResolve(i)
    \/ \E i \in DOMAIN reqs : SendMessageChannel(i)
    \/ \E i \in DOMAIN reqs : SendMessageGenerateId(i)
    \/ \E i \in DOMAIN reqs : SendMessageInsert(i)
    \/ \E i \in DOMAIN reqs : EditMessageResolve(i)
    \/ \E i \in DOMAIN reqs : EditMessageBatch(i)
    \/ \E i \in DOMAIN reqs : GetMessagesResolve(i)
    \/ \E i \in DOMAIN reqs : GetMessagesSelectMessages(i)
    \/ \E i \in DOMAIN reqs : GetMessagesSelectEdits(i)
    \/ \E i \in DOMAIN reqs : InteractionResponseResolve(i)
    \/ \E i \in DOMAIN reqs : InteractionResponseGenerateId(i)
    \/ \E i \in DOMAIN reqs : InteractionResponseUpsert(i)
    \/ \E i \in DOMAIN reqs : BulkOverwriteResolve(i)
    \/ \E i \in DOMAIN reqs : BulkOverwriteGuild(i)
    \/ \E i \in DOMAIN reqs : BulkOverwriteGenerateId(i)
    \/ \E i \in DOMAIN reqs : BulkOverwriteBatch(i)
    \/ \E i \in DOMAIN reqs : GetCommandsResolve(i)
    \/ \E i \in DOMAIN reqs : GetCommandsSelect(i)
    \/ \E i \in DOMAIN reqs : ResetResolve(i)
    \/ \E i \in DOMAIN reqs : ResetBatch(i)
    \/ \E i \in DOMAIN reqs : DeleteTenantResolve(i)
    \/ \E i \in DOMAIN reqs : DeleteTenantBatch(i)
    \/ \E i \in DOMAIN reqs : AuditLog(i)

SpecIsolation == InitIsolation /\ [][NextIsolation]_vars

\* the rows of a table kept as a sequence that belong to tenant b, in table order
Owned(rows, b) == SelectSeq2(rows, {k \in DOMAIN rows : rows[k].tenant_id = b})

\* every row of tenant b, in every table but audit_logs, is after the step what it was
RowsUnchanged(b) ==
    /\ {t \in tenants' : t.id = b} = {t \in tenants : t.id = b}
    /\ \A T \in {<<guilds, guilds'>>, <<channels, channels'>>, <<auth_codes, auth_codes'>>,
                 <<access_tokens, access_tokens'>>,
                 <<interaction_responses, interaction_responses'>>} :
          {r \in T[2] : r.tenant_id = b} = {r \in T[1] : r.tenant_id = b}
    /\ \A T \in {<<messages, messages'>>, <<message_edits, message_edits'>>,
                 <<reactions, reactions'>>, <<followups, followups'>>,
                 <<registered_commands, registered_commands'>>} :
          Owned(T[2], b) = Owned(T[1], b)

\* the step of a request changes no row of a tenant other than the one it resolved to
\* (of no tenant at all when it resolved to none)
LeavesOthersUnchanged ==
    \A i \in DOMAIN reqs' :
        Moves(i) => \A b \in {1, 2} \ {reqs'[i].l.tenant} : RowsUnchanged(b)

\* the rows a getter of tenant a reads in this step are rows stored for tenant a
GetterReadsOwnRows ==
    \A i \in DOMAIN reqs :
        /\ (At(i, "getMessages", "gm_messages") /\ Moves(i)) =>
              \A k \in DOMAIN reqs'[i].l.msgRows :
                 \E m \in DOMAIN messages :
                    /\ messages[m].tenant_id = reqs[i].p.tenantId
                    /\ messages[m].id = reqs'[i].l.msgRows[k].id
                    /\ messages[m].payload = reqs'[i].l.msgRows[k].payload
        /\ (At(i, "getCommands", "gc_select") /\ Moves(i)) =>
              \A k \in DOMAIN reqs'[i].l.commands :
                 \E m \in DOMAIN registered_commands :
                    /\ registered_commands[m].tenant_id = reqs[i].p.tenantId
                    /\ registered_commands[m].id = reqs'[i].l.commands[k].id
                    /\ registered_commands[m].payload = reqs'[i].l.commands[k].payload

-----------------------------------------------------------------------------
(* The redirect_uri validation of the token exchange (SpecOAuth).           *)

\* C24: an exchange whose form redirect_uri differs from the redirect URI stored with the
\* auth code it read, whatever the stored value (the empty one of a code created without
\* a redirectUri included), is never answered 200 and is never issued an access token.
C24_RedirectMismatchRejected ==
    \A i \in DOMAIN reqs :
        ( /\ IsExchange(i) /\ "authCode" \in DOMAIN reqs[i].l
          /\ reqs[i].l.authCode.redirect_uri # reqs[i].p.redirect_uri )
        => /\ reqs[i].pc \notin {"ex_insert", "ex_guild"}
           /\ ~IssuedToken(i)
           /\ reqs[i].status \in {0, 400, 401}
           /\ reqs[i].status = 400 => reqs[i].body = "redirect_uri mismatch"

\* C25: an exchange that is answered 401 or 400 removes no auth code: the step in which
\* it is rejected, and every step it took before, leaves auth_codes as it was.
C25_RejectedExchangeKeepsCode ==
    [][\A i \in DOMAIN reqs :
          (IsExchange(i) /\ Moves(i) /\ reqs'[i].status \in {400, 401})
              => auth_codes' = auth_codes]_vars

-----------------------------------------------------------------------------
(* Referential integrity of messages (SpecReset: sends, resets, deletions). *)

\* C26: in every reachable state every stored message's channel_id names a channel
\* stored under the same tenant, whatever the interleaving of the requests.
C26_MessageChannelExists ==
    \A k \in DOMAIN messages :
        \E ch \in channels :
            ch.tenant_id = messages[k].tenant_id /\ ch.id = messages[k].channel_id

-----------------------------------------------------------------------------
(* Guild and channel topology over the tenant lifecycle (Spec).             *)

TopologyWellFormed ==
    /\ \A t \in tenants : \E g \in guilds : g.tenant_id = t.id
    /\ \A g \in guilds :
          \E ch \in channels : ch.tenant_id = g.tenant_id /\ ch.guild_id = g.id
    /\ \A ch \in channels :
          \E g \in guilds : g.tenant_id = ch.tenant_id /\ g.id = ch.guild_id

\* a step of the handler of a create-tenant request adds the tenant row with every guild and channel of
\* its body and answers 201, or leaves the three tables as they were
CreateAllOrNothing ==
    \A i \in DOMAIN reqs' :
        ( /\ Moves(i) /\ reqs'[i].kind = "createTenant"
          /\ i \in DOMAIN reqs => ~Responded(i) ) =>
            LET p == reqs'[i].p
                tid == reqs'[i].l.tenant
            IN  \/ /\ reqs'[i].status # 201
                   /\ tenants' = tenants /\ guilds' = guilds /\ channels' = channels
                \/ /\ reqs'[i].status = 201
                   /\ \E t \in tenants' :
                        /\ t.id = tid /\ t.bot_token = p.botToken /\ t.client_id = p.clientId
                        /\ t \notin tenants /\ tenants' = tenants \cup {t}
                   /\ guilds' = guilds \cup {[tenant_id |-> tid, id |-> g] : g \in DOMAIN p.guilds}
                   /\ channels' = channels \cup
                        UNION {{[tenant_id |-> tid, guild_id |-> g, id |-> c] : c \in p.guilds[g]}
                               : g \in DOMAIN p.guilds}

\* C27: in every reachable state each tenant has at least one guild, each guild has at
\* least one channel and every channel's guild_id names a guild of the same tenant; a
\* create-tenant request inserts the tenant with all its guilds and channels, or nothing.
C27_TopologyWellFormed == []TopologyWellFormed /\ [][CreateAllOrNothing]_vars

C27_Witness ==
    \E i, j \in DOMAIN reqs :
        /\ reqs[i].kind = "createTenant" /\ reqs[i].status = 201
        /\ DOMAIN reqs[i].p.guilds = {"g1", "g2"}
        /\ \E t \in tenants : t.id = reqs[i].l.tenant
        /\ reqs[j].kind = "createTenant" /\ reqs[j].status = 500
        /\ Cardinality(tenants) = 1 /\ Cardinality(guilds) = 2 /\ Cardinality(channels) = 2

-----------------------------------------------------------------------------
(* Topology and credentials: one tenant has been created and used (a code   *)
(* issued and one exchanged, a message sent, edited and reacted to, an      *)
(* interaction answered and followed up, commands registered).  A request   *)
(* of any route of the service arrives: a second tenant may be created, the *)
(* first reset or deleted.                                                  *)

InitTopology ==
    /\ tenants = {[id |-> 1, bot_token |-> "bot1", client_id |-> "cid1", client_secret |-> "s1",
                   next_id |-> 5]}
    /\ guilds = {[tenant_id |-> 1, id |-> "g1"], [tenant_id |-> 1, id |-> "g2"]}
    /\ channels = {[tenant_id |-> 1, guild_id |-> "g1", id |-> "c1"],
                   [tenant_id |-> 1, guild_id |-> "g2", id |-> "c2"]}
    /\ auth_codes = {[code |-> 2, tenant_id |-> 1, guild_id |-> "g1", redirect_uri |-> "r1"]}
    /\ access_tokens = {[token |-> <<1, 4>>, tenant_id |-> 1]}
    /\ uuid = 4
    /\ messages = <<[tenant_id |-> 1, id |-> <<"msg", 1>>, channel_id |-> "c1", payload |-> "p2"]>>
    /\ message_edits = <<[tenant_id |-> 1, message_id |-> <<"msg", 1>>, payload |-> "p1"]>>
    /\ reactions = <<[tenant_id |-> 1, channel_id |-> "c1", message_id |-> <<"msg", 1>>,
                      emoji |-> "e1"]>>
    /\ interaction_responses = {[tenant_id |-> 1, interaction_token |-> "tokA",
                                 response_id |-> <<"resp", 2>>, payload |-> "p1"]}
    /\ followups = <<[tenant_id |-> 1, id |-> <<"followup", 3>>, interaction_token |-> "tokA",
                      payload |-> "p1"]>>
    /\ registered_commands = <<[tenant_id |-> 1, id |-> <<"cmd", 4>>, guild_id |-> "g1",
                                payload |-> "p1"]>>
    /\ issued = {[tenant_id |-> 1, id |-> <<"msg", 1>>], [tenant_id |-> 1, id |-> <<"resp", 2>>],
                 [tenant_id |-> 1, id |-> <<"followup", 3>>], [tenant_id |-> 1, id |-> <<"cmd", 4>>]}
    /\ handed = issued
    /\ audit_logs = <<ControlAuditRow(1, "POST", "createTenant", 201),
                      ControlAuditRow(2, "POST", "authCode", 200),
                      ControlAuditRow(3, "POST", "authCode", 200),
                      TenantAuditRow(4, 1, "POST", "exchange", 200),
                      TenantAuditRow(5, 1, "POST", "sendMessage", 200),
                      TenantAuditRow(6, 1, "PATCH", "editMessage", 200),
                      TenantAuditRow(7, 1, "PUT", "addReaction", 204),
                      TenantAuditRow(8, 1, "PATCH", "interactionResponse", 200),
                      TenantAuditRow(9, 1, "POST", "sendFollowup", 200),
                      TenantAuditRow(10, 1, "PUT", "bulkOverwrite", 200)>>
    /\ audit_seq = 10
    /\ reqs = <<>>

NextTopology ==
    \/ BeginCreateTenant(MaxTopologyRequests)
    \/ BeginDeleteTenant(MaxTopologyRequests)
    \/ BeginReset(MaxTopologyRequests)
    \/ BeginAuthCode(MaxTopologyRequests)
    \/ BeginAuthorize(MaxTopologyRequests)
    \/ BeginTokenExchange(MaxTopologyRequests)
    \/ BeginGetUser(MaxTopologyRequests)
    \/ BeginSendMessage(MaxTopologyRequests)
    \/ BeginEditMessage(MaxTopologyRequests)
    \/ BeginAddReaction(MaxTopologyRequests)
    \/ BeginInteractionResponse(MaxTopologyRequests)
    \/ BeginSendFollowup(MaxTopologyRequests)
    \/ BeginBulkOverwrite(MaxTopologyRequests)
    \/ BeginGetMessages(MaxTopologyRequests)
    \/ BeginGetCommands(MaxTopologyRequests)
    \/ \E i \in DOMAIN reqs : CreateTenantCheckBot(i)
    \/ \E i \in DOMAIN reqs : CreateTenantCheckClient(i)
    \/ \E i \in DOMAIN reqs : CreateTenantBatch(i)
    \/ \E i \in DOMAIN reqs : DeleteTenantResolve(i)
    \/ \E i \in DOMAIN reqs : DeleteTenantBatch(i)
    \/ \E i \in DOMAIN reqs : ResetResolve(i)
    \/ \E i \in DOMAIN reqs : ResetBatch(i)
    \/ \E i \in DOMAIN reqs : AuthCodeResolve(i)
    \/ \E i \in DOMAIN reqs : AuthCodeGuild(i)
    \/ \E i \in DOMAIN reqs : AuthCodeInsert(i)
    \/ \E i \in DOMAIN reqs : AuthorizeResolve(i)
    \/ \E i \in DOMAIN reqs : AuthorizeFirstGuild(i)
    \/ \E i \in DOMAIN reqs : AuthorizeInsert(i)
    \/ \E i \in DOMAIN reqs : TokenExchangeResolve(i)
    \/ \E i \in DOMAIN reqs : TokenExchangeSelect(i)
    \/ \E i \in DOMAIN reqs : TokenExchangeDelete(i)
    \/ \E i \in DOMAIN reqs : TokenExchangeInsert(i)
    \/ \E i \in DOMAIN reqs : TokenExchangeGuild(i)
    \/ \E i \in DOMAIN reqs : GetUserResolve(i)
    \/ \E i \in DOMAIN reqs : SendMessageResolve(i)
    \/ \E i \in DOMAIN reqs : SendMessageChannel(i)
    \/ \E i \in DOMAIN reqs : SendMessageGenerateId(i)
    \/ \E i \in DOMAIN reqs : SendMessageInsert(i)
    \/ \E i \in DOMAIN reqs : EditMessageResolve(i)
    \/ \E i \in DOMAIN reqs : EditMessageBatch(i)
    \/ \E i \in DOMAIN reqs : AddReactionResolve(i)
    \/ \E i \in DOMAIN reqs : AddReactionChannel(i)
    \/ \E i \in DOMAIN reqs : AddReactionMessage(i)
    \/ \E i \in DOMAIN reqs : AddReactionInsert(i)
    \/ \E i \in DOMAIN reqs : InteractionResponseResolve(i)
    \/ \E i \in DOMAIN reqs : InteractionResponseGenerateId(i)
    \/ \E i \in DOMAIN reqs : InteractionResponseUpsert(i)
    \/ \E i \in DOMAIN reqs : SendFollowupResolve(i)
    \/ \E i \in DOMAIN reqs : SendFollowupGenerateId(i)
    \/ \E i \in DOMAIN reqs : SendFollowupInsert(i)
    \/ \E i \in DOMAIN reqs : BulkOverwriteResolve(i)
    \/ \E i \in DOMAIN reqs : BulkOverwriteGuild(i)
    \/ \E i \in DOMAIN reqs : BulkOverwriteGenerateId(i)
    \/ \E i \in DOMAIN reqs : BulkOverwriteBatch(i)
    \/ \E i \in DOMAIN reqs : GetMessagesResolve(i)
    \/ \E i \in DOMAIN reqs : GetMessagesSelectMessages(i)
    \/ \E i \in DOMAIN reqs : GetMessagesSelectEdits(i)
    \/ \E i \in DOMAIN reqs : GetCommandsResolve(i)
    \/ \E i \in DOMAIN reqs : GetCommandsSelect(i)
    \/ \E i \in DOMAIN reqs : AuditLog(i)

SpecTopology == InitTopology /\ [][NextTopology]_vars

\* the guilds and channels rows of tenant tid
TopologyOf(gs, cs, tid) == {r \in gs \cup cs : r.tenant_id = tid}

\* a step that changes guilds or channels is a step of a create-tenant or a delete-tenant
\* request (the sweeper, the third operation allowed to, runs in SpecSweep)
TopologyChangedByLifecycleOnly ==
    (guilds' # guilds \/ channels' # channels) =>
        \E i \in DOMAIN reqs : Moves(i) /\ reqs[i].kind \in {"createTenant", "deleteTenant"}

\* a tenant that exists before and after a step keeps its guilds, its channels and its
\* bot_token, client_id and client_secret (the key pair is stored and never read by the
\* routes modelled; it is not a field of the rows here)
ExistingTenantKeepsTopology ==
    \A t \in tenants, u \in tenants' :
        t.id = u.id =>
            /\ TopologyOf(guilds', channels', t.id) = TopologyOf(guilds, channels, t.id)
            /\ u.bot_token = t.bot_token /\ u.client_id = t.client_id
            /\ u.client_secret = t.client_secret

\* a tenant row appears only in a step of a create-tenant request
CredentialsSetByCreateOnly ==
    (\E u \in tenants' : \A t \in tenants : t.id # u.id) =>
        \E i \in DOMAIN reqs : Moves(i) /\ reqs[i].kind = "createTenant"

-----------------------------------------------------------------------------
(* Reactions: from the state of InitReset (tenant 1 has message msg-1 in c1 *)
(* and one reaction to it), reactions are added while tenants are reset.    *)

NextReactions ==
    \/ BeginAddReaction(MaxReactionRequests)
    \/ BeginReset(MaxReactionRequests)
    \/ \E i \in DOMAIN reqs : AddReactionResolve(i)
    \/ \E i \in DOMAIN reqs : AddReactionChannel(i)
    \/ \E i \in DOMAIN reqs : AddReactionMessage(i)
    \/ \E i \in DOMAIN reqs : AddReactionInsert(i)
    \/ \E i \in DOMAIN reqs : ResetResolve(i)
    \/ \E i \in DOMAIN reqs : ResetBatch(i)
    \/ \E i \in DOMAIN reqs : AuditLog(i)

SpecReactions == InitReset /\ [][NextReactions]_vars

\* C29: in every reachable state every stored reaction's (channel_id, message_id) names a
\* message stored in that channel under the same tenant, whatever the interleaving of
\* reaction requests and resets.
C29_ReactionMessageExists ==
    \A k \in DOMAIN reactions :
        MessageInChannel(reactions[k].tenant_id, reactions[k].message_id, reactions[k].channel_id)

\* a reaction request whose channel or message lookup finds no row is answered 404 and
\* leaves reactions as they were
UnknownTargetIs404 ==
    [][\A i \in DOMAIN reqs :
          ( /\ Moves(i) /\ reqs[i].kind = "addReaction"
            /\ \/ /\ reqs[i].pc = "ar_channel"
                  /\ ~\E c \in channels : c.tenant_id = reqs[i].l.tenant
                                          /\ c.id = reqs[i].p.channelId
               \/ /\ reqs[i].pc = "ar_message"
                  /\ ~MessageInChannel(reqs[i].l.tenant, reqs[i].p.messageId,
                                       reqs[i].p.channelId) )
          => reqs'[i].status = 404 /\ reactions' = reactions]_vars

-----------------------------------------------------------------------------
(* GET /_test/:tenantId/followups/:token (test-control.ts, 2.7 Get          *)
(* Followups), read against followups rows that carry created_at, the       *)
(* `new Date().toISOString()` of their handler in milliseconds.  ORDER BY   *)
(* created_at ASC fixes the order of rows with different timestamps; the    *)
(* statement names no further key, so rows of one timestamp come in an      *)
(* order it does not fix.                                                   *)

BeginGetFollowups(max) ==
    /\ Len(reqs) < max
    /\ \E tid \in TenantIdParams, tok \in {"tokA", "tokB"} :
         /\ tid # 1 => tok = "tokA"
         /\ Receive(NewRequest("getFollowups", [tenantId |-> tid, token |-> tok], "gf_resolve"))
    /\ UNCHANGED <<store, audit_logs, audit_seq, uuid, issued, handed>>

GetFollowupsResolve(i) ==
    /\ At(i, "getFollowups", "gf_resolve")
    /\ Set(i, IF resolveTenantById(reqs[i].p.tenantId) = {}
              THEN Respond(reqs[i], 404, "Tenant not found")
              ELSE [reqs[i] EXCEPT !.pc = "gf_select", !.l.tenant = reqs[i].p.tenantId])
    /\ UNCHANGED <<store, audit_logs, audit_seq, uuid, issued, handed>>

\* the result sets of SELECT ... FROM rows WHERE <k \in keep> ORDER BY created_at ASC:
\* the listings of the kept rows in which created_at never decreases
OrderByCreatedAt(rows, keep) ==
    {[k \in DOMAIN q |-> rows[q[k]]] :
        q \in {o \in Orderings(keep) :
                  \A a, b \in DOMAIN o : a < b => rows[o[a]].created_at <= rows[o[b]].created_at}}

\* SELECT id, payload, created_at FROM followups WHERE tenant_id = ? AND
\* interaction_token = ? ORDER BY created_at ASC, then the response
GetFollowupsSelect(i) ==
    /\ At(i, "getFollowups", "gf_select")
    /\ \E results \in OrderByCreatedAt(followups,
                          {k \in DOMAIN followups :
                              /\ followups[k].tenant_id = reqs[i].p.tenantId
                              /\ followups[k].interaction_token = reqs[i].p.token}) :
         Set(i, Respond([reqs[i] EXCEPT !.l = [tenant |-> reqs[i].l.tenant,
                                               followups |->
                                                   [k \in DOMAIN results |->
                                                       [id |-> results[k].id,
                                                        payload |-> results[k].payload,
                                                        createdAt |-> results[k].created_at]]]],
                        200, "followups"))
    /\ UNCHANGED <<store, audit_logs, audit_seq, uuid, issued, handed>>

\* the clock readings of the followups sent so far
Times == {1, 2}

\* tenant 1 has sent MaxFollowups followups for token tokA, one request after the other:
\* followup-n is the n-th row, and the clock did not run backwards between them
InitOrdering ==
    /\ TwoTopologies
    /\ tenants = TenantRows(MaxFollowups + 1, 1)
    /\ \E ts \in [1..MaxFollowups -> Times] :
         /\ \A a, b \in 1..MaxFollowups : a < b => ts[a] <= ts[b]
         /\ followups = [n \in 1..MaxFollowups |->
                            [tenant_id |-> 1, id |-> <<"followup", n>>,
                             interaction_token |-> "tokA",
                             payload |-> IF n % 2 = 1 THEN "p1" ELSE "p2",
                             created_at |-> ts[n]]]
    /\ issued = {[tenant_id |-> 1, id |-> <<"followup", n>>] : n \in 1..MaxFollowups}
    /\ handed = issued
    /\ audit_logs = <<ControlAuditRow(1, "POST", "createTenant", 201),
                      ControlAuditRow(2, "POST", "createTenant", 201)>>
                    \o [n \in 1..MaxFollowups |->
                          TenantAuditRow(2 + n, 1, "POST", "sendFollowup", 200)]
    /\ audit_seq = 2 + MaxFollowups
    /\ uuid = 2
    /\ auth_codes = {} /\ access_tokens = {} /\ interaction_responses = {}
    /\ messages = <<>> /\ message_edits = <<>> /\ reactions = <<>> /\ registered_commands = <<>>
    /\ reqs = <<>>

NextOrdering ==
    \/ BeginGetFollowups(MaxOrderingRequests)
    \/ \E i \in DOMAIN reqs : GetFollowupsResolve(i)
    \/ \E i \in DOMAIN reqs : GetFollowupsSelect(i)
    \/ \E i \in DOMAIN reqs : AuditLog(i)

SpecOrdering == InitOrdering /\ [][NextOrdering]_vars

\* C30: the followups getter returns the followups of a token in the order in which they
\* were created (followup-1 first), and two reads of the same token return the same
\* listing, also when two rows carry the same created_at.
C30_FollowupsInCreationOrder ==
    \A i, j \in DOMAIN reqs :
        ( /\ reqs[i].kind = "getFollowups" /\ reqs[i].status = 200
          /\ reqs[j].kind = "getFollowups" /\ reqs[j].status = 200
          /\ reqs[i].p = reqs[j].p )
        => /\ reqs[i].l.followups = reqs[j].l.followups
           /\ \A a, b \in DOMAIN reqs[i].l.followups :
                 a < b => reqs[i].l.followups[a].id[2] < reqs[i].l.followups[b].id[2]

\* the same where no two rows of the token carry the same created_at
DistinctTimesOrdered ==
    (\A a, b \in DOMAIN followups : a # b => followups[a].created_at # followups[b].created_at)
        => C30_FollowupsInCreationOrder

-----------------------------------------------------------------------------
(* Order of the audit rows (Spec: every request is audited, no insert of    *)
(* the middleware fails).                                                   *)

\* the handler of request i has finished and the handler of request j has not
FinishedBefore(i, j) ==
    /\ i \in DOMAIN reqs /\ Responded(i)
    /\ j \in DOMAIN reqs => ~Responded(j)

\* request j has its audit row and request i, whose handler has finished, has none yet:
\* the row of i, once inserted, carries the larger id
LoggedBefore(j, i) ==
    /\ i \in DOMAIN reqs /\ j \in DOMAIN reqs
    /\ reqs[j].pc = "done" /\ reqs[i].pc = "audit"

\* a step of a request that has been received (as opposed to the arrival of one)
RequestStep == Next /\ Len(reqs') = Len(reqs)

\* the worker runs every continuation that is ready: a received request that can take
\* its next step (a D1 statement to run, its audit row to insert) eventually takes one
SpecScheduled == Spec /\ WF_vars(RequestStep)

\* C31: if the handler of request A finished before the handler of request B, B's
\* audit_logs row is never inserted before A's (A's row has the smaller id).
C31_AuditRowsInCompletionOrder ==
    \A i, j \in 1..MaxLifecycleRequests :
        [](FinishedBefore(i, j) => [](~LoggedBefore(j, i)))

-----------------------------------------------------------------------------
(* Reset after reset (SpecReset).                                           *)

\* every request received so far, request i aside, is a reset of tenant tid, and one of
\* them has been answered 200
OnlyResetsBefore(i, tid) ==
    /\ \A k \in DOMAIN reqs \ {i} : reqs[k].kind = "reset" /\ reqs[k].p.tenantId = tid
    /\ \E k \in DOMAIN reqs \ {i} : reqs[k].status = 200

\* C32: a reset of tenant T that follows a reset of T answered 200, with no other request
\* in between, is answered 200 and changes no row of a non-audit table: T's mutable tables
\* stay empty, its next_id stays 1 and guilds and channels are as before.
C32_ResetIdempotent ==
    [][\A i \in DOMAIN reqs :
          ( /\ At(i, "reset", "rs_batch") /\ Moves(i)
            /\ OnlyResetsBefore(i, reqs[i].p.tenantId) )
          => /\ reqs'[i].status = 200
             /\ store' = store
             /\ NoMutableRowsAfter(reqs[i].p.tenantId)
             /\ \A t \in tenants' : t.id = reqs[i].p.tenantId => t.next_id = 1]_vars

C32_Witness ==
    /\ Len(reqs) = 2
    /\ \A i \in DOMAIN reqs :
          reqs[i].kind = "reset" /\ reqs[i].p.tenantId = 1 /\ reqs[i].status = 200
    /\ reqs[1].l.changes >= 8 /\ reqs[2].l.changes = 0
    /\ tenants = TenantRows(1, 2)

-----------------------------------------------------------------------------
(* Auth codes and their guilds: from the state of InitOAuth, codes are      *)
(* issued by the authorize route and by the test-control route while        *)
(* tenants are deleted.                                                     *)

NextCodes ==
    \/ BeginAuthCode(MaxCodeRequests)
    \/ BeginAuthorize(MaxCodeRequests)
    \/ BeginDeleteTenant(MaxCodeRequests)
    \/ \E i \in DOMAIN reqs : AuthCodeResolve(i)
    \/ \E i \in DOMAIN reqs : AuthCodeGuild(i)
    \/ \E i \in DOMAIN reqs : AuthCodeInsert(i)
    \/ \E i \in DOMAIN reqs : AuthorizeResolve(i)
    \/ \E i \in DOMAIN reqs : AuthorizeFirstGuild(i)
    \/ \E i \in DOMAIN reqs : AuthorizeInsert(i)
    \/ \E i \in DOMAIN reqs : DeleteTenantResolve(i)
    \/ \E i \in DOMAIN reqs : DeleteTenantBatch(i)
    \/ \E i \in DOMAIN reqs : AuditLog(i)

SpecCodes == InitOAuth /\ [][NextCodes]_vars

\* C33: in every reachable state every pending auth code's guild_id names a guild stored
\* under the code's own tenant (and so is never the empty guild id).
C33_CodeGuildExists ==
    \A a \in auth_codes :
        \E g \in guilds : g.tenant_id = a.tenant_id /\ g.id = a.guild_id

\* a step of the test-control route whose guild lookup finds no row is answered 400 and
\* stores no code; a code the authorize route stores for a tenant with guilds names the
\* first of them
GuildValidated ==
    [][\A i \in DOMAIN reqs :
          /\ ( /\ At(i, "authCode", "ac_guild") /\ Moves(i)
               /\ ~\E g \in guilds : g.tenant_id = reqs[i].p.tenantId
                                     /\ g.id = reqs[i].p.guildId )
             => reqs'[i].status = 400 /\ auth_codes' = auth_codes
          /\ ( /\ At(i, "authorize", "az_guild") /\ Moves(i)
               /\ \E g \in guilds : g.tenant_id = reqs[i].l.tenant )
             => /\ reqs'[i].l.guildId # ""
                /\ \A g \in guilds : g.tenant_id = reqs[i].l.tenant
                                     => GuildRank(reqs'[i].l.guildId) <= GuildRank(g.id)]_vars

-----------------------------------------------------------------------------
(* POST /_test/:tenantId/send-interaction (test-control.ts, 2.10 Send       *)
(* Interaction) and signPayload (helpers.ts).  Strings are sequences of     *)
(* characters.  Ed25519 (@noble/ed25519) is taken as it is specified: a     *)
(* signature made with a seed over a message verifies under the public key  *)
(* derived from that seed over that message, and over no other.             *)

\* interaction objects of a request body
Interactions == {"ping", "command"}

\* JSON.stringify(interaction)
Stringify(interaction) ==
    IF interaction = "ping" THEN <<"{", "1", "}">> ELSE <<"{", "2", "}">>

\* String(Math.floor(Date.now() / 1000)) for the clock readings of the model
Timestamps == {<<"1", "7">>, <<"1", "7", "1">>}

\* ed.getPublicKeyAsync(seed)
PublicKeyOf(seed) == <<"pub", seed>>

\* a message joined with a separator
SignedMessage_Separated(timestamp, body) == timestamp \o <<".">> \o body

\* new TextEncoder().encode(timestamp + body)
SignedMessage(timestamp, body) == timestamp \o body

\* signPayload: ed.signAsync(message, seed)
signPayload(privateKey, timestamp, body) ==
    [seed |-> privateKey, message |-> SignedMessage(timestamp, body)]

\* verifySignature: ed.verifyAsync(signature, message, publicKey)
verifySignature(signature, message, publicKey) ==
    PublicKeyOf(signature.seed) = publicKey /\ signature.message = message

BeginSendInteraction(max) ==
    /\ Len(reqs) < max
    /\ \E tid \in TenantIdParams, url \in {"", "u1"}, interaction \in Interactions \cup {""},
          now \in Timestamps :
         \* what is never read (after a 404, after a 400) is not varied
         /\ tid = 0 => (url = "u1" /\ interaction = "ping")
         /\ url = "" => interaction = "ping"
         /\ (tid = 0 \/ url = "" \/ interaction = "") => now = <<"1", "7">>
         /\ Receive(NewRequest("sendInteraction",
                               [tenantId |-> tid, webhookUrl |-> url,
                                interaction |-> interaction, now |-> now],
                               "si_resolve"))
    /\ UNCHANGED <<store, audit_logs, audit_seq, uuid, issued, handed>>

\* resolveTenantById; then, with no statement in between, requireJsonBody, the two field
\* checks, the timestamp, JSON.stringify and signPayload
SendInteractionResolve(i) ==
    /\ At(i, "sendInteraction", "si_resolve")
    /\ LET tenant == resolveTenantById(reqs[i].p.tenantId)
           interactionBody == Stringify(reqs[i].p.interaction)
       IN  Set(i, IF tenant = {} THEN Respond(reqs[i], 404, "Tenant not found")
                  ELSE IF reqs[i].p.webhookUrl = ""
                  THEN Respond(reqs[i], 400, "Missing required field: webhookUrl")
                  ELSE IF reqs[i].p.interaction = ""
                  THEN Respond(reqs[i], 400, "Missing required field: interaction")
                  ELSE [reqs[i] EXCEPT
                           !.pc = "si_fetch",
                           !.l = [tenant |-> reqs[i].p.tenantId,
                                  privateKey |-> RowOf(tenant).private_key,
                                  timestamp |-> reqs[i].p.now,
                                  interactionBody |-> interactionBody,
                                  signature |-> signPayload(RowOf(tenant).private_key,
                                                            reqs[i].p.now, interactionBody)]])
    /\ UNCHANGED <<store, audit_logs, audit_seq, uuid, issued, handed>>

\* fetch(webhookUrl, { headers, body: interactionBody }): the request leaves with the two
\* signature headers and the body; it is answered, or fetch rejects
SendInteractionFetch(i) ==
    /\ At(i, "sendInteraction", "si_fetch")
    /\ \E answered \in BOOLEAN :
         LET sent == [url |-> reqs[i].p.webhookUrl,
                      XSignatureEd25519 |-> reqs[i].l.signature,
                      XSignatureTimestamp |-> reqs[i].l.timestamp,
                      body |-> reqs[i].l.interactionBody]
             r == [reqs[i] EXCEPT !.l = [tenant |-> reqs[i].l.tenant,
                                         privateKey |-> reqs[i].l.privateKey,
                                         sent |-> sent, answered |-> answered]]
         IN  Set(i, IF answered THEN Respond(r, 200, "statusCode")
                    ELSE Respond(r, 502, "Webhook request failed"))
    /\ UNCHANGED <<store, audit_logs, audit_seq, uuid, issued, handed>>

\* two tenants, created with the key seeds k1 and k2
InitDelivery ==
    /\ TwoTopologies
    /\ tenants = {[id |-> 1, bot_token |-> "bot1", client_id |-> "cid1", client_secret |-> "s1",
                   next_id |-> 1, private_key |-> "k1"],
                  [id |-> 2, bot_token |-> "bot2", client_id |-> "cid2", client_secret |-> "s2",
                   next_id |-> 1, private_key |-> "k2"]}
    /\ audit_logs = <<ControlAuditRow(1, "POST", "createTenant", 201),
                      ControlAuditRow(2, "POST", "createTenant", 201)>>
    /\ audit_seq = 2
    /\ uuid = 2
    /\ auth_codes = {} /\ access_tokens = {} /\ interaction_responses = {}
    /\ messages = <<>> /\ message_edits = <<>> /\ reactions = <<>>
    /\ followups = <<>> /\ registered_commands = <<>>
    /\ reqs = <<>> /\ issued = {} /\ handed = {}

NextDelivery ==
    \/ BeginSendInteraction(MaxDeliveryRequests)
    \/ \E i \in DOMAIN reqs : SendInteractionResolve(i)
    \/ \E i \in DOMAIN reqs : SendInteractionFetch(i)
    \/ \E i \in DOMAIN reqs : AuditLog(i)

SpecDelivery == InitDelivery /\ [][NextDelivery]_vars

\* what a request that reached fetch put on the wire verifies, and is the serialized
\* interaction of its body; the answers are 200 (delivered) and 502 (fetch rejected)
DeliveredSignatureVerifies ==
    \A i \in DOMAIN reqs :
        (reqs[i].kind = "sendInteraction" /\ "sent" \in DOMAIN reqs[i].l) =>
            LET sent == reqs[i].l.sent
            IN  /\ verifySignature(sent.XSignatureEd25519,
                                   sent.XSignatureTimestamp \o sent.body,
                                   PublicKeyOf(reqs[i].l.privateKey))
                /\ sent.body = Stringify(reqs[i].p.interaction)
                /\ \E t \in tenants : t.id = reqs[i].p.tenantId
                                      /\ t.private_key = reqs[i].l.privateKey
                /\ reqs[i].status = IF reqs[i].l.answered THEN 200 ELSE 502

\* no step of a send-interaction request changes a table
DeliveryChangesNothing ==
    (\E i \in DOMAIN reqs' : Moves(i) /\ reqs'[i].kind = "sendInteraction") => store' = store

\* C34: the X-Signature-Ed25519 a send-interaction request emits verifies under the public
\* key of the tenant's private key over the X-Signature-Timestamp value followed by the
\* body sent, which is the serialized interaction; the request changes no table, and a
\* fetch that rejects is answered 502.
C34_SignedInteractionVerifies ==
    []DeliveredSignatureVerifies /\ [][DeliveryChangesNothing]_vars

C34_Witness ==
    \E i, j \in DOMAIN reqs :
        /\ reqs[i].kind = "sendInteraction" /\ reqs[i].status = 200
        /\ reqs[i].p.tenantId = 2 /\ reqs[i].p.interaction = "command"
        /\ reqs[i].l.sent.XSignatureEd25519.seed = "k2"
        /\ reqs[i].l.sent.XSignatureTimestamp = <<"1", "7", "1">>
        /\ reqs[j].kind = "sendInteraction" /\ reqs[j].status = 502

-----------------------------------------------------------------------------
(* Rejected requests of the Discord API routes (SpecTopology).              *)

WritingRoutes ==
    {"sendMessage", "editMessage", "addReaction", "interactionResponse", "sendFollowup",
     "bulkOverwrite"}

Rejections == {400, 401, 404}

\* request i has been given an id by generateId
HoldsId(r) == "id" \in DOMAIN r.l \/ ("ids" \in DOMAIN r.l /\ r.l.ids # <<>>)

\* a rejected request of a writing route never called generateId
RejectedHoldsNoId ==
    \A i \in DOMAIN reqs :
        (reqs[i].kind \in WritingRoutes /\ reqs[i].status \in Rejections) => ~HoldsId(reqs[i])

\* the step in which a request of a writing route is rejected changes no table, and a
\* step of such a request that changes a table is its generateId or the statement after
\* which it is answered 200, 204 or 500
RejectionChangesNothing ==
    \A i \in DOMAIN reqs' :
        ( /\ Moves(i) /\ reqs'[i].kind \in WritingRoutes
          /\ i \in DOMAIN reqs => ~Responded(i) )
        => /\ reqs'[i].status \in Rejections => (store' = store /\ issued' = issued)
           /\ store' # store => (HoldsId(reqs'[i]) \/ reqs'[i].status \in {200, 204, 500})

\* C35: a send-message, edit-message, add-reaction, edit-interaction-response,
\* send-followup or bulk-overwrite request rejected with 401, 404 or 400 leaves every
\* non-audit table unchanged and consumes no id; an edit of an unknown message, or of a
\* message addressed through the wrong channel, adds no message_edits row.
C35_RejectedRequestChangesNothing ==
    []RejectedHoldsNoId /\ [][RejectionChangesNothing]_vars

\* message msg-1 of channel c1, edited through channel c2: 404, and the history is as it was
C35_Witness ==
    \E i \in DOMAIN reqs :
        /\ reqs[i].kind = "editMessage" /\ reqs[i].status = 404
        /\ reqs[i].p.auth = "bot1" /\ reqs[i].p.channelId = "c2"
        /\ reqs[i].p.messageId = <<"msg", 1>>
        /\ Len(message_edits) = 1
        /\ \E t \in tenants : t.id = 1 /\ t.next_id = 5

-----------------------------------------------------------------------------
(* One counter per tenant behind every prefix (generateId, discord-api.ts 571-583). *)

\* the routes that call generateId
GeneratingRoutes == {"sendMessage", "interactionResponse", "sendFollowup", "bulkOverwrite"}

\* the ids generateId returned for tenant tid since its creation or last reset
IssuedTo(tid) == {x \in issued : x.tenant_id = tid}

\* next_id - 1 counts the ids of the tenant, and no two of them carry one number
CounterCountsIds ==
    \A t \in tenants :
        /\ t.next_id - 1 = Cardinality(IssuedTo(t.id))
        /\ \A x, y \in IssuedTo(t.id) : x.id[2] = y.id[2] => x = y

\* a request answered 200 by a generating route drew one id, a bulk overwrite of
\* n commands drew n
SuccessDrawsItsIds ==
    \A i \in DOMAIN reqs :
        (reqs[i].kind \in GeneratingRoutes /\ Responded(i) /\ reqs[i].status = 200) =>
            IF reqs[i].kind = "bulkOverwrite"
            THEN Len(reqs[i].l.ids) = Len(reqs[i].p.commands)
            ELSE "id" \in DOMAIN reqs[i].l

\* a step that changes the counter of a tenant is one generateId of a generating
\* route (by one, with one new id) or a reset of that tenant (back to 1)
CounterMovedByGenerateOrReset ==
    \A t \in tenants : \A u \in tenants' :
        (u.id = t.id /\ u.next_id # t.next_id) =>
            \/ /\ u.next_id = t.next_id + 1
               /\ \E i \in DOMAIN reqs : Moves(i) /\ reqs[i].kind \in GeneratingRoutes
               /\ \E x \in issued' \ issued :
                    /\ x.tenant_id = t.id /\ x.id[2] = t.next_id
                    /\ issued' = issued \cup {x}
            \/ /\ u.next_id = 1
               /\ \E i \in DOMAIN reqs :
                    Moves(i) /\ reqs[i].kind = "reset" /\ reqs[i].p.tenantId = t.id

\* C36: the counter of a tenant is shared by all prefixes: next_id - 1 is the number
\* of ids handed out since creation or the last reset, a successful send-message,
\* interaction response or followup drew one id and a bulk overwrite of n commands n,
\* only generateId (by one) and a reset change the counter, and no two ids of one
\* tenant carry the same number between resets, whatever their prefix
C36_SharedCounterCountsIds ==
    /\ [](CounterCountsIds /\ SuccessDrawsItsIds)
    /\ [][CounterMovedByGenerateOrReset]_vars

\* a bulk overwrite of two commands answered 200 drew cmd-5 and cmd-6 after msg-1,
\* resp-2, followup-3 and cmd-4, and the counter stands at 7
C36_Witness ==
    \E i \in DOMAIN reqs :
        /\ reqs[i].kind = "bulkOverwrite" /\ reqs[i].status = 200
        /\ reqs[i].l.ids = <<<<"cmd", 5>>, <<"cmd", 6>>>>
        /\ \E t \in tenants : t.id = 1 /\ t.next_id = 7
        /\ {x.id[1] : x \in IssuedTo(1)} = {"msg", "resp", "followup", "cmd"}

-----------------------------------------------------------------------------
(* Stored ids and the counter under reset (discord-api.ts 223-231, index.ts 801-821). *)

\* the ids of tenant tid in the four tables whose rows carry a generated id
StoredIds(tid) ==
    {r.id : r \in {m \in SeqToSet(messages) \cup SeqToSet(followups)
                          \cup SeqToSet(registered_commands) : m.tenant_id = tid}}
    \cup {r.response_id : r \in {x \in interaction_responses : x.tenant_id = tid}}

\* C37: in every reachable state, under any interleaving of requests with reset, the
\* number of every stored message, followup, command and interaction-response id of
\* a tenant is strictly below the tenant's next_id
C37_StoredIdsBelowCounter ==
    \A t \in tenants : \A id \in StoredIds(t.id) : id[2] < t.next_id

\* no send-message of an existing tenant is answered 500 (the duplicate-key failure
\* of its INSERT)
NoSendFailsOnDuplicateKey ==
    \A i \in DOMAIN reqs :
        (reqs[i].kind = "sendMessage" /\ reqs[i].status = 500) =>
            \A t \in tenants : t.id # reqs[i].l.tenant

-----------------------------------------------------------------------------
(* Auth codes are bound to the tenant they were issued for (discord-api.ts 80-99). *)

\* request i presents valid client credentials of one tenant and the pending code of
\* another, and is at its SELECT
PresentsForeignCode(i) ==
    /\ i \in DOMAIN reqs /\ IsExchange(i) /\ reqs[i].pc = "ex_select"
    /\ \E a \in auth_codes : a.code = reqs[i].p.code /\ a.tenant_id # reqs[i].l.tenant

\* the step of such a request answers 401 invalid_grant and leaves the codes and the
\* access tokens as they are
ForeignCodeRejected ==
    \A i \in DOMAIN reqs :
        (PresentsForeignCode(i) /\ Moves(i)) =>
            /\ reqs'[i].status = 401 /\ reqs'[i].body = "invalid_grant"
            /\ auth_codes' = auth_codes
            /\ access_tokens' = access_tokens

\* an exchange reads, deletes and is paid for a code of its own tenant only
ExchangeUsesOwnCode ==
    \A i \in DOMAIN reqs :
        (IsExchange(i) /\ "authCode" \in DOMAIN reqs[i].l) =>
            reqs[i].l.authCode.tenant_id = reqs[i].l.tenant

\* C38: an auth code issued for tenant A cannot be redeemed with tenant B's client
\* credentials: the exchange answers 401 invalid_grant, issues no access token and
\* does not consume the code, which A can still exchange afterwards
C38_ForeignCodeNotRedeemable ==
    /\ []ExchangeUsesOwnCode
    /\ [][ForeignCodeRejected]_vars

\* tenant 2's credentials with tenant 1's code 3 were answered 401 invalid_grant, and
\* tenant 1 exchanged code 3 after that
C38_Witness ==
    /\ Len(reqs) = 2
    /\ reqs[1].kind = "exchange" /\ reqs[1].p.client_id = "cid2" /\ reqs[1].p.code = 3
    /\ reqs[1].status = 401 /\ reqs[1].body = "invalid_grant"
    /\ reqs[2].kind = "exchange" /\ reqs[2].p.client_id = "cid1" /\ reqs[2].p.code = 3
    /\ reqs[2].status = 200 /\ IssuedToken(2)
    /\ \A a \in auth_codes : a.code # 3
    /\ \A t \in access_tokens : t.tenant_id = 1

-----------------------------------------------------------------------------
(* The authorize route stores a code and then builds the redirect (discord-api.ts 16-57). *)

\* the step of an authorize request that stores a code answers 302 with that code
StoredCodeIsDelivered ==
    \A i \in DOMAIN reqs :
        (Moves(i) /\ reqs[i].kind = "authorize" /\ auth_codes' # auth_codes) =>
            /\ reqs'[i].status = 302
            /\ \E a \in auth_codes' \ auth_codes : a.code = reqs'[i].l.code

\* an authorize request answered with another status than 302 has stored no code
UndeliveredStoresNothing ==
    \A i \in DOMAIN reqs :
        (reqs[i].kind = "authorize" /\ Responded(i) /\ reqs[i].status # 302) =>
            "code" \notin DOMAIN reqs[i].l

\* C39: GET /oauth2/authorize for a known client_id either answers 302 with the newly
\* stored code in the Location URL or stores no auth code at all: no request, for
\* example one with a missing or unparseable redirect_uri, leaves a pending code
\* that was never delivered to the caller
C39_AuthorizeDeliversOrStoresNothing ==
    /\ []UndeliveredStoresNothing
    /\ [][StoredCodeIsDelivered]_vars

====
